---- MODULE Spec2Model ----
(***************************************************************************)
(* minigeri: the agent abstraction layer.                                  *)
(*                                                                         *)
(* Spec       one agent instance (GroqAgent, ClaudeApiAgent, OllamaAgent,  *)
(*            GeminiApiAgent, or the streaming revision of OllamaAgent)    *)
(*            driven through send / clearHistory, with the HTTP client's   *)
(*            events (request error, response headers, end of body,        *)
(*            response error) as the environment.                          *)
(* SpecStream one response body read by one of the streaming parsers       *)
(*            (Ollama NDJSON, Groq SSE, Claude SSE), delivered in chunks   *)
(*            cut at every possible byte offset.                           *)
(* SpecFiles  read_file called with every spelling of a path.              *)
(* SpecCommands  the command runner: registerCommand at startup and        *)
(*            run_command called with every command string.                *)
(* SpecTools  one round of the tool-calling loop of GroqAgent and          *)
(*            OllamaAgent, from the model's response on.                   *)
(* SpecCatalog  the three converters of the tool catalog.                  *)
(* SpecChats  the WhatsApp connector routing incoming messages to agents.  *)
(* SpecResponse  the body of one non-streaming response handed to the end  *)
(*            handler of GroqAgent, OllamaAgent or GeminiApiAgent.         *)
(* SpecExec   one send of a subprocess agent (ClaudeCodeAgent,             *)
(*            GeminiCliAgent) through execAgent.                           *)
(* SpecList   list_files given every output of `git ls-files`.             *)
(* SpecClear  Spec with clearHistory called also in the middle of a turn.  *)
(* SpecCapture  runCommand invocations that overlap in time.               *)
(* SpecNgrok  the ngrok handle and the ngrok processes it was set to.      *)
(***************************************************************************)
EXTENDS Integers, Sequences, FiniteSets, TLC

VARIABLES
    kind,           \* which agent class this instance is
    apiKey,         \* this.apiKey ("" when no credential is configured)
    systemContext,  \* what buildSystemContext() returns ("" for null)
    idsInCalls,     \* whether the Ollama server puts an id on its tool calls
    messages,       \* this.messages, the Conversation
    pc,             \* where the turn in flight stands
    status,         \* res.statusCode of the response being received
    round,          \* the loop variable of the tool-calling loop
    pending,        \* result.toolCalls / result.toolUse being iterated
    tcIndex,        \* index in pending of the tool whose result is awaited
    outcome,        \* how the promise returned by the last send settled
    returned,       \* the value the last send resolved with
    error,          \* the error the last send rejected with
    before,         \* observation: this.messages when the last send was called
    requests,       \* observation: model requests issued by the last send
    toolRuns,       \* observation: executeTool calls made by the last send
    lastOp,         \* observation: the last operation called on the agent
    silent,         \* options.silent, as the caller of this agent passes it
    events,         \* observation: the writes to process.stdout and the
                    \* executeTool calls of the last send, in order
    parser,         \* SpecStream: which streaming parser reads the response
    wire,           \* SpecStream: the bytes of the response body, in order
    delivered,      \* SpecStream: how many bytes 'data' events have delivered
    closure,        \* SpecStream: the variables the data/end handlers close over
    ended,          \* SpecStream: the 'end' handler has run
    isJson,         \* SpecStream: for each byte of wire, whether JSON.parse
                    \* accepts the JSON text of its line
    shadow,         \* SpecStream: the closure of the same handlers given the
                    \* same chunks less the bytes that isJson rules out
    registry,       \* command-runner: the names a handler is registered under
    toolCall,       \* observation: the tool call executeTool was last given
    toolResult,     \* observation: what that execution returned and did
    lsFiles,        \* the paths `git ls-files` (or the directory walk) prints
    catalog,        \* SpecCatalog: TOOL_CATALOG
    converted,      \* SpecCatalog: what the last converter called returned
    ollamaAgents,   \* SpecChats: chat key -> OllamaAgent instance
    groqAgents,     \* SpecChats: chat key -> GroqAgent instance
    instances,      \* SpecChats: every agent instance created so far
    served,         \* SpecChats: the last incoming message and its instance
    responseBody,   \* SpecResponse: the body of a non-streaming response
    callResult,     \* SpecResponse: how the promise of _callApi settled
    proc,           \* SpecExec: the child process of a subprocess agent
    capture,        \* SpecCapture: process.stdout.write, process.stderr.write
                    \* and console.log/error/warn, and the runCommand
                    \* invocations made so far
    ngrok           \* SpecNgrok: ngrokProcess and the ngrok processes spawned

vars == <<kind, apiKey, systemContext, idsInCalls, messages, pc, status, round,
          pending, tcIndex, outcome, returned, error, before, requests, toolRuns,
          lastOp, silent, events, parser, wire, delivered, closure, ended,
          isJson, shadow, registry, toolCall, toolResult, lsFiles, catalog, converted,
          ollamaAgents, groqAgents, instances, served, responseBody,
          callResult, proc, capture, ngrok>>

\* the agent under send / clearHistory
avars == <<kind, apiKey, systemContext, idsInCalls, messages, pc, status, round,
           pending, tcIndex, outcome, returned, error, before, requests, toolRuns,
           lastOp, silent, events>>

\* one response body under a streaming parser
svars == <<parser, wire, delivered, closure, ended, isJson, shadow>>

\* the tool executor
tvars == <<registry, toolCall, toolResult, lsFiles>>

\* the tool catalog and its converters
gvars == <<catalog, converted>>

\* the WhatsApp connector
wvars == <<ollamaAgents, groqAgents, instances, served>>

\* one non-streaming response
rvars == <<responseBody, callResult>>

\* the subprocess agents, the output functions of the process, ngrok
xvars == <<proc, capture, ngrok>>

----------------------------------------------------------------------------
(* Bounds of the model.                                                    *)

\* the most lines a streamed response body holds
MaxLines == 3

\* the longest tool-call list a model response carries
MaxCalls == 2
\* send is called only while the Conversation holds at most this many messages
StartLimit == 2
\* the most segments a path argument of read_file is spelled with
MaxSegs == 3
\* the most words a command string of run_command holds
MaxWords == 2
\* the most tools a catalog holds
MaxTools == 3
\* the most agent instances the WhatsApp connector creates
MaxInstances == 4
\* the most content parts of a Gemini response
MaxParts == 2
\* the most 'data' events of a child process before it is closed
MaxChunks == 3
\* the most lines `git ls-files` prints
MaxListed == 2
\* the most sends the WhatsApp connector is awaiting at a time
MaxInFlight == 2
\* the most invocations of runCommand
MaxRuns == 3
\* the most ngrok processes spawned
MaxNgrok == 3

----------------------------------------------------------------------------
(* Values.                                                                 *)

Kinds == {"groq", "claude", "ollama", "gemini", "ollamaStream"}

\* the agents whose send runs the tool-calling loop
ToolKinds == {"groq", "claude", "ollama"}

\* the agents whose send checks this.apiKey
KeyKinds == {"groq", "claude", "gemini"}

NoId == "none"

UserText == "q"
AnswerText == "ans"
ToolOutput == "out"

StatusCodes == {200, 401, 429, 500}

Msg(r, c, calls, id, results) ==
    [role |-> r, content |-> c, tool_calls |-> calls, tool_call_id |-> id,
     tool_results |-> results]

UserMsg(text) == Msg("user", text, <<>>, NoId, <<>>)

\* tool calls as a response of the model carries them: the i-th call of a
\* response has id c<i>; an Ollama server may send its calls without ids
CallId(i) ==
    IF kind = "ollama" /\ ~idsInCalls THEN NoId
    ELSE IF i = 1 THEN "c1" ELSE IF i = 2 THEN "c2" ELSE "c3"

CallLists ==
    {[i \in 1..n |-> [id |-> CallId(i), name |-> "read_file"]] : n \in 1..MaxCalls}

\* the bodies a text response can carry: no content, or some content
Texts == {"", AnswerText}

Pop(s) == IF s = <<>> THEN s ELSE SubSeq(s, 1, Len(s) - 1)

\* seqs[1] \o seqs[2] \o ...
RECURSIVE Concat(_)
Concat(seqs) == IF seqs = <<>> THEN <<>> ELSE Head(seqs) \o Concat(Tail(seqs))

----------------------------------------------------------------------------
(* The pieces of send and _callApi.                                        *)

\* a loop bound off by one
MAX_TOOL_ROUNDS_OffByOne == 5 + 1

MAX_TOOL_ROUNDS == 5

\* the credential check left out
CredentialMissing_Unchecked == FALSE

\* if (!this.apiKey) throw ...   (OllamaAgent has no credential)
CredentialMissing == kind \in KeyKinds /\ apiKey = ""

\* the system message unshifted on every send
PushUser_Always(msgs) ==
    IF kind = "ollama" /\ systemContext # ""
    THEN <<Msg("system", systemContext, <<>>, NoId, <<>>)>>
             \o Append(msgs, UserMsg(UserText))
    ELSE Append(msgs, UserMsg(UserText))

\* this.messages.push({ role: 'user', ... }), and in OllamaAgent the system
\* message unshifted in front when there is a context and none is stored yet
PushUser(msgs) ==
    LET pushed == Append(msgs, UserMsg(UserText))
    IN  IF /\ kind = "ollama"
           /\ systemContext # ""
           /\ \A i \in 1..Len(pushed) : pushed[i].role # "system"
        THEN <<Msg("system", systemContext, <<>>, NoId, <<>>)>> \o pushed
        ELSE pushed

\* what the req.on('error') handler does to this.messages
OnReqError(msgs) == IF kind = "groq" THEN msgs ELSE Pop(msgs)

\* what the end handler of a non-200 response does to this.messages
OnStatusError(msgs) == IF kind \in {"claude", "gemini"} THEN Pop(msgs) ELSE msgs

\* what res.on('error', reject) does to this.messages
OnResError(msgs) == msgs

\* the assistant message pushed when the response carries tool calls
AssistantCalls(calls, text) ==
    IF kind = "claude"
    THEN Msg("assistant", text, calls, NoId, <<>>)
    ELSE Msg("assistant", "", calls, NoId, <<>>)

\* the result of a tool call recorded as an answer of the assistant
ToolMessage_AsText(tc) == Msg("assistant", ToolOutput, <<>>, NoId, <<>>)

\* the message pushed for the result of one tool call (Groq, Ollama)
ToolMessage(tc) ==
    IF kind = "groq"
    THEN Msg("tool", ToolOutput, <<>>, tc.id, <<>>)
    ELSE Msg("tool", ToolOutput, <<>>, NoId, <<>>)

\* ClaudeApiAgent: the tool_result blocks of one round, pushed as one user message
ToolResultsMessage(calls) ==
    Msg("user", "", <<>>, NoId,
        [i \in 1..Len(calls) |-> [tool_use_id |-> calls[i].id, content |-> ToolOutput]])

\* the order in which the for loop visits result.toolCalls
VisitOrder(calls) == calls

\* the message pushed for a final text answer
AssistantText(text) ==
    IF kind = "gemini"
    THEN Msg("model", text, <<>>, NoId, <<>>)
    ELSE Msg("assistant", text, <<>>, NoId, <<>>)

\* the Conversation left as it is
clearHistory_Kept(msgs) == msgs

\* clearHistory(): this.messages = []
clearHistory(msgs) == <<>>

\* the final answer returned without being recorded
PushAnswer_Dropped(msgs, text) == msgs

\* if (result.content) this.messages.push(...)
PushAnswer(msgs, text) == IF text # "" THEN Append(msgs, AssistantText(text)) ELSE msgs

\* the notification written whatever options.silent says
Notify_Always(evts) == Append(evts, "log")

\* if (!silent) this.logToolCall(name, args): one line on process.stdout
Notify(evts) == IF silent THEN evts ELSE Append(evts, "log")

\* executeTool(name, args) is called.  list_files and read_file write
\* nothing; run_command puts its own function in the place of
\* process.stdout.write while the handler runs, so nothing reaches stdout
Executed(evts) == Append(evts, "exec")

\* one pass of the loop over the tool calls: notification, then execution
NotifyAndRun(evts) == Executed(Notify(evts))

\* ClaudeApiAgent runs all passes without awaiting
RECURSIVE NotifyAndRunAll(_, _)
NotifyAndRunAll(evts, n) ==
    IF n = 0 THEN evts ELSE NotifyAndRunAll(NotifyAndRun(evts), n - 1)

\* the text of a response written to process.stdout: GroqAgent
\* `if (content && !silent)`, OllamaAgent inside `if (result.content)`, the
\* streaming handlers token by token
WriteText(evts, text) ==
    IF text # "" /\ ~silent THEN Append(evts, "text") ELSE evts

----------------------------------------------------------------------------
(* Response bodies as bytes, and what the streaming handlers do with them. *)
(*                                                                         *)
(* A byte is written as a string.  "NL" is the newline, "SP" a blank, and  *)
(* "L" "C" are the lead and continuation byte of one two-byte UTF-8        *)
(* character (written "é" once decoded).  The ASCII runs whose inside no   *)
(* handler looks at are written as one symbol each:                        *)
(*   "D"   data:<blank>                  the SSE field prefix              *)
(*   "T["  the JSON text up to and including the opening quote of a text   *)
(*         token, "]" its closing quote and braces                         *)
(*   "J["  likewise for the partial_json of an input_json_delta event      *)
(*   "o" "v"  the two halves {"path":  and  "a.txt"}  of a tool input;     *)
(*         inside a partial_json the character "é" is the half  "é"}       *)
(*   "S1"  a content_block_start event of a tool_use block (id t1)         *)
(*   "P"   a content_block_stop event                                      *)
(*   "E"   a JSON object with an `error` field                             *)
(*   "Z"   [DONE]                                                          *)
(*   "X"   text that is not JSON,  "V" an SSE line of another field        *)

Parsers == {"ndjson", "groqsse", "claudesse"}

TextChars == {"a", "é", "?"}
FragChars == {"o", "v", "é", "?"}

\* chunk.toString(): UTF-8 decoding of one chunk on its own; a lead byte
\* without its continuation byte, and a continuation byte without its lead
\* byte, each decode to U+FFFD (written "?")
RECURSIVE Decode(_)
Decode(bytes) ==
    IF bytes = <<>> THEN <<>>
    ELSE IF bytes[1] = "L"
         THEN IF Len(bytes) >= 2 /\ bytes[2] = "C"
              THEN <<"é">> \o Decode(SubSeq(bytes, 3, Len(bytes)))
              ELSE <<"?">> \o Decode(Tail(bytes))
         ELSE IF bytes[1] = "C"
              THEN <<"?">> \o Decode(Tail(bytes))
              ELSE <<bytes[1]>> \o Decode(Tail(bytes))

\* str.split('\n'): k newlines give k + 1 pieces
RECURSIVE SplitLines(_)
SplitLines(str) ==
    IF \A i \in 1..Len(str) : str[i] # "NL" THEN <<str>>
    ELSE LET i == CHOOSE j \in 1..Len(str) :
                      str[j] = "NL" /\ \A k \in 1..(j - 1) : str[k] # "NL"
         IN  <<SubSeq(str, 1, i - 1)>> \o SplitLines(SubSeq(str, i + 1, Len(str)))

\* str.trim()
RECURSIVE Trim(_)
Trim(str) ==
    IF str = <<>> THEN str
    ELSE IF str[1] \in {"SP", "NL"} THEN Trim(Tail(str))
    ELSE IF str[Len(str)] \in {"SP", "NL"} THEN Trim(SubSeq(str, 1, Len(str) - 1))
    ELSE str

Inside(str) == SubSeq(str, 2, Len(str) - 1)

\* JSON.parse(str) and the reading of the fields the handlers look at
ParseJson(str) ==
    LET j == Trim(str)
        framed(open, chars) ==
            /\ Len(j) >= 2
            /\ j[1] = open
            /\ j[Len(j)] = "]"
            /\ \A i \in 2..(Len(j) - 1) : j[i] \in chars
    IN  IF j = <<"E">> THEN [type |-> "error", text |-> <<>>]
        ELSE IF j = <<"S1">> THEN [type |-> "tool_start", text |-> <<>>]
        ELSE IF j = <<"P">> THEN [type |-> "block_stop", text |-> <<>>]
        ELSE IF framed("T[", TextChars) THEN [type |-> "text", text |-> Inside(j)]
        ELSE IF framed("J[", FragChars) THEN [type |-> "input_json", text |-> Inside(j)]
        ELSE [type |-> "throws", text |-> <<>>]

\* JSON.parse(toolInputJson || '{}'), {} when it throws
ParseInput(json) ==
    IF json = <<"o", "v">> THEN "path=a.txt"
    ELSE IF json = <<"o", "é">> THEN "path=é"
    ELSE IF json = <<"o", "?", "?">> THEN "path=??"
    ELSE "{}"

NoToolUse == [id |-> "", name |-> "", input |-> ""]

NoClosure ==
    [buffer |-> <<>>, fullText |-> <<>>, toolUseBlocks |-> <<>>,
     contentBlocks |-> <<>>, currentToolUse |-> NoToolUse, toolInputJson |-> <<>>,
     stdout |-> <<>>, settled |-> "pending"]

Settle(c, how) == IF c.settled = "pending" THEN [c EXCEPT !.settled = how] ELSE c

\* a line that does not parse fails the call
OnParseError_Reject(c) == Settle(c, "rejected")

\* catch { }: JSON.parse threw
OnParseError(c) == c

\* fullResponse += token; if (!silent) process.stdout.write(token)
AddToken(c, token) ==
    [c EXCEPT !.fullText = @ \o token,
              !.stdout = IF silent THEN @ ELSE Append(@, token)]

\* OllamaAgent._callApi, stream branch: the body of the for loop of the data
\* handler.  The result says whether the handler returned from inside it.
NdjsonLine(c, line) ==
    IF Trim(line) = <<>> THEN [c |-> c, returned |-> FALSE]
    ELSE LET json == ParseJson(line)
         IN  IF json.type = "throws"
             THEN [c |-> OnParseError(c), returned |-> FALSE]
             ELSE IF json.type = "text"
             THEN [c |-> AddToken(c, json.text), returned |-> FALSE]
             ELSE IF json.type = "error"
             THEN [c |-> Settle(c, "rejected"), returned |-> TRUE]
             ELSE [c |-> c, returned |-> FALSE]

\* GroqAgent._callApi, stream branch: the body of the for loop
GroqLine(c, line) ==
    LET trimmed == Trim(line)
    IN  IF trimmed = <<>> \/ trimmed[1] # "D" THEN c
        ELSE LET data == Tail(trimmed)
             IN  IF data = <<"Z">> THEN c
                 ELSE LET json == ParseJson(data)
                      IN  IF json.type = "throws" THEN OnParseError(c)
                          ELSE IF json.type = "text" THEN AddToken(c, json.text)
                          ELSE c

\* ClaudeApiAgent._callApi: the body of the for loop
ClaudeLine(c, line) ==
    LET trimmed == Trim(line)
    IN  IF trimmed = <<>> \/ trimmed[1] # "D" THEN c
        ELSE LET json == ParseJson(Tail(trimmed))
             IN  IF json.type = "throws" THEN OnParseError(c)
                 ELSE IF json.type = "text" THEN AddToken(c, json.text)
                 ELSE IF json.type = "tool_start"
                 THEN [c EXCEPT !.currentToolUse =
                                    [id |-> "t1", name |-> "read_file", input |-> "{}"],
                                !.toolInputJson = <<>>]
                 ELSE IF json.type = "input_json"
                 THEN [c EXCEPT !.toolInputJson = @ \o json.text]
                 ELSE IF json.type = "block_stop" /\ c.currentToolUse # NoToolUse
                 THEN LET block == [c.currentToolUse EXCEPT
                                       !.input = ParseInput(c.toolInputJson)]
                      IN  [c EXCEPT !.toolUseBlocks = Append(@, block),
                                    !.contentBlocks = Append(@, block),
                                    !.currentToolUse = NoToolUse,
                                    !.toolInputJson = <<>>]
                 ELSE c

\* for (const line of lines) { ... }
RECURSIVE ForLines(_, _, _)
ForLines(p, c, lines) ==
    IF lines = <<>> THEN c
    ELSE IF p = "ndjson"
         THEN LET r == NdjsonLine(c, Head(lines))
              IN  IF r.returned THEN r.c ELSE ForLines(p, r.c, Tail(lines))
         ELSE IF p = "groqsse"
              THEN ForLines(p, GroqLine(c, Head(lines)), Tail(lines))
              ELSE ForLines(p, ClaudeLine(c, Head(lines)), Tail(lines))

\* res.on('data', chunk => ...)
DataHandler(p, c, chunk) ==
    LET buffer == c.buffer \o Decode(chunk)
        lines == SplitLines(buffer)
        kept == lines[Len(lines)]
    IN  ForLines(p, [c EXCEPT !.buffer = kept], SubSeq(lines, 1, Len(lines) - 1))

\* res.on('end', () => ...)
EndHandler(p, c) ==
    IF p = "ndjson"
    THEN LET json == ParseJson(c.buffer)
             d == IF Trim(c.buffer) = <<>> THEN c
                  ELSE IF json.type = "throws" THEN OnParseError(c)
                  ELSE IF json.type = "text" THEN AddToken(c, json.text)
                  ELSE c
         IN  Settle(d, "resolved")
    ELSE IF p = "groqsse"
    THEN LET d == IF Trim(c.buffer) # <<>>
                  THEN ForLines(p, c, SplitLines(c.buffer))
                  ELSE c
         IN  Settle(d, "resolved")
    ELSE LET d == IF c.fullText # <<>>
                  THEN [c EXCEPT !.contentBlocks =
                                    <<[id |-> "", name |-> "text", input |-> ""]>> \o @]
                  ELSE c
         IN  Settle(d, "resolved")

\* the lines a body is made of, per parser
Token(chars) == <<"T[">> \o chars \o <<"]">>

LinesOf(p) ==
    IF p = "ndjson"
    THEN {Token(<<"a">>), Token(<<"L", "C">>), <<"E">>, <<"X">>, <<"SP">>}
    ELSE IF p = "groqsse"
    THEN {<<"D">> \o Token(<<"a">>), <<"D">> \o Token(<<"L", "C">>), <<"D", "Z">>,
          <<"D", "X">>, <<"V">>, <<>>}
    ELSE {<<"D">> \o Token(<<"a">>), <<"D">> \o Token(<<"L", "C">>), <<"D", "S1">>,
          <<"D", "J[", "o", "]">>, <<"D", "J[", "v", "]">>,
          <<"D", "J[", "o", "L", "C", "]">>,
          <<"D", "P">>, <<"D", "X">>}

\* lines joined by newlines, the last one terminated or not
RECURSIVE Join(_)
Join(lines) ==
    IF lines = <<>> THEN <<>>
    ELSE IF Len(lines) = 1 THEN lines[1]
    ELSE lines[1] \o <<"NL">> \o Join(Tail(lines))

Bodies(p) ==
    LET seqs == UNION {[1..n -> LinesOf(p)] : n \in 1..MaxLines}
    IN  {Join(ls) : ls \in seqs} \cup {Join(ls) \o <<"NL">> : ls \in seqs}

\* the whole body delivered as a single chunk
AsOneChunk(p, body) == EndHandler(p, DataHandler(p, NoClosure, body))

\* the line of a body that byte i belongs to (a newline belongs to the line
\* it ends), without its newline
LineAt(str, i) ==
    LET from == CHOOSE j \in 1..i :
                    /\ j = 1 \/ str[j - 1] = "NL"
                    /\ \A k \in j..(i - 1) : str[k] # "NL"
        to == IF str[i] = "NL" THEN i - 1
              ELSE CHOOSE j \in i..Len(str) :
                       /\ j = Len(str) \/ str[j + 1] = "NL"
                       /\ \A k \in i..j : str[k] # "NL"
    IN  SubSeq(str, from, to)

\* a line whose JSON text (the whole line in NDJSON, what follows `data: `
\* in SSE) JSON.parse does not accept
NotJson(p, line) ==
    LET trimmed == Trim(Decode(line))
    IN  /\ trimmed # <<>>
        /\ IF p = "ndjson" THEN ParseJson(trimmed).type = "throws"
           ELSE /\ trimmed[1] = "D"
                /\ ParseJson(Tail(trimmed)).type = "throws"

\* bytes from + 1 .. from + n of a body less the bytes that `keep` rules out
RECURSIVE JsonBytes(_, _, _, _)
JsonBytes(keep, str, from, n) ==
    IF n = 0 THEN <<>>
    ELSE (IF keep[from + 1] THEN <<str[from + 1]>> ELSE <<>>)
         \o JsonBytes(keep, str, from + 1, n - 1)

----------------------------------------------------------------------------
(* The tool layer.  Its strings are sequences of symbols: "/" the path     *)
(* separator, "." a dot, "SP" a blank, and one symbol for each run of      *)
(* letters no function looks inside: "env" and "ENV" (the same letters in  *)
(* upper case), "p" the name of the root directory, "2" a suffix, "s" a    *)
(* subdirectory, "a" "x" names, and the command words.                     *)

\* values of JavaScript as the tool layer tells them apart
Undefined == [t |-> "undefined", s |-> <<>>]
Num == [t |-> "number", s |-> <<>>]
Str(s) == [t |-> "string", s |-> s]

\* !value
Falsy(v) == v.t = "undefined" \/ (v.t = "string" /\ v.s = <<>>)

\* str.toLowerCase()
toLowerCase(str) ==
    [i \in 1..Len(str) |->
        IF str[i] = "ENV" THEN "env"
        ELSE IF str[i] = "PNG" THEN "png"
        ELSE IF str[i] = "FOLDER" THEN "folder"
        ELSE IF str[i] = "OCTOPUS" THEN "octopus"
        ELSE str[i]]

\* str.startsWith(prefix)
startsWith(str, prefix) ==
    Len(str) >= Len(prefix) /\ SubSeq(str, 1, Len(prefix)) = prefix

\* str.split(sep): k separators give k + 1 pieces
RECURSIVE split(_, _)
split(str, sep) ==
    IF \A i \in 1..Len(str) : str[i] # sep THEN <<str>>
    ELSE LET i == CHOOSE j \in 1..Len(str) :
                      str[j] = sep /\ \A k \in 1..(j - 1) : str[k] # sep
         IN  <<SubSeq(str, 1, i - 1)>> \o split(SubSeq(str, i + 1, Len(str)), sep)

\* path.resolve: the segments "", "." and ".." are worked off from the left
RECURSIVE normalize(_, _)
normalize(stack, segs) ==
    IF segs = <<>> THEN stack
    ELSE IF Head(segs) = <<>> \/ Head(segs) = <<".">>
         THEN normalize(stack, Tail(segs))
         ELSE IF Head(segs) = <<".", ".">>
              THEN normalize(Pop(stack), Tail(segs))
              ELSE normalize(Append(stack, Head(segs)), Tail(segs))

\* an absolute path written out: no trailing separator, "/" for the top
RECURSIVE render(_)
render(segs) ==
    IF segs = <<>> THEN <<>> ELSE <<"/">> \o Head(segs) \o render(Tail(segs))

\* the segments path.resolve(from, to) leads to (from is absolute)
resolvedSegs(from, to) ==
    LET joined == IF to # <<>> /\ to[1] = "/" THEN to ELSE from \o <<"/">> \o to
    IN  normalize(<<>>, split(joined, "/"))

\* path.resolve(from, to)
resolve(from, to) ==
    LET segs == resolvedSegs(from, to)
    IN  IF segs = <<>> THEN <<"/">> ELSE render(segs)

\* process.cwd(), the sandbox root
cwd == <<"/", "p">>

\* the disk: the root /p holds a, x, .env and s/; s/ holds .ENV.x and a
\* large file a; beside the root there are the directory /p2 and the file /a
Files ==
    {<<"/", "p", "/", "a">>,
     <<"/", "p", "/", "x">>,
     <<"/", "p", "/", ".", "env">>,
     <<"/", "p", "/", "s", "/", ".", "ENV", ".", "x">>,
     <<"/", "p", "/", "s", "/", "a">>,
     <<"/", "p", "2", "/", "a">>,
     <<"/", "a">>}

Dirs == {<<"/">>, <<"/", "p">>, <<"/", "p", "/", "s">>, <<"/", "p", "2">>}

MAX_FILE_SIZE == 8 * 1024

\* the characters of a file: `ascii` of them take one byte in UTF-8, `wide`
\* of them two; each is one UTF-16 unit of the string readFileSync returns.
\* /p/a fills the limit, /p/s/a is one byte over it, /p/x is over it in
\* bytes only
Content(file) ==
    IF file = <<"/", "p", "/", "a">> THEN [ascii |-> MAX_FILE_SIZE, wide |-> 0]
    ELSE IF file = <<"/", "p", "/", "s", "/", "a">>
    THEN [ascii |-> MAX_FILE_SIZE + 1, wide |-> 0]
    ELSE IF file = <<"/", "p", "/", "x">>
    THEN [ascii |-> 0, wide |-> MAX_FILE_SIZE \div 2 + 1]
    ELSE [ascii |-> 1, wide |-> 0]

\* stat.size
SizeOf(file) == Content(file).ascii + 2 * Content(file).wide

\* readFileSync(absPath, 'utf-8').length
LengthOf(file) == Content(file).ascii + Content(file).wide

\* str.substring(0, end).length
Kept(length, end) == IF length < end THEN length ELSE end

\* isEnvFile(name)
isEnvFile(name) ==
    LET lower == toLowerCase(name)
    IN  lower = <<".", "env">> \/ startsWith(lower, <<".", "env", ".">>)

\* the extensions, given without their dot
BinaryNames ==
    {"png", "jpg", "jpeg", "gif", "bmp", "ico", "svg", "webp",
     "mp3", "mp4", "wav", "avi", "mov", "mkv", "webm",
     "zip", "tar", "gz", "bz2", "7z", "rar",
     "pdf", "doc", "docx", "xls", "xlsx", "ppt", "pptx",
     "exe", "dll", "so", "dylib", "bin", "dat",
     "woff", "woff2", "ttf", "eot", "otf",
     "db", "sqlite", "sqlite3",
     "lock"}

\* BINARY_EXT
BINARY_EXT == {<<".", name>> : name \in BinaryNames}

\* str.lastIndexOf(ch), counted from 1: 0 when ch does not occur
lastIndexOf(str, ch) ==
    IF \A i \in 1..Len(str) : str[i] # ch THEN 0
    ELSE CHOOSE i \in 1..Len(str) :
             str[i] = ch /\ \A k \in (i + 1)..Len(str) : str[k] # ch

\* str.includes(sub)
includes(str, sub) ==
    \E i \in 1..(Len(str) - Len(sub) + 1) : SubSeq(str, i, i + Len(sub) - 1) = sub

\* str.substring(i), counted from 1: an index before the start is the start
substring(str, i) == SubSeq(str, IF i < 1 THEN 1 ELSE i, Len(str))

\* the extension compared as it is spelled
isBinary_CaseSensitive(filepath) ==
    substring(filepath, lastIndexOf(filepath, ".")) \in BINARY_EXT

\* isBinary(filepath)
isBinary(filepath) ==
    LET ext == toLowerCase(substring(filepath, lastIndexOf(filepath, ".")))
    IN  ext \in BINARY_EXT

\* output.split('\n').map(f => f.trim()).filter(Boolean)
TrimmedLines(lines) ==
    SelectSeq([i \in 1..Len(lines) |-> Trim(lines[i])], LAMBDA f : f # <<>>)

\* what a tool execution returned (form "error" is a text [Error: ...]),
\* the files it gave to readFileSync, the handlers it invoked, the paths it
\* listed and the length of the file contents in the text, the marker apart
Returned(form, what, read, ran) ==
    [called |-> TRUE, threw |-> FALSE, form |-> form, what |-> what,
     read |-> read, ran |-> ran, listed |-> <<>>, length |-> 0]

\* the execution threw
Threw(what) ==
    [called |-> TRUE, threw |-> TRUE, form |-> "none", what |-> what,
     read |-> {}, ran |-> {}, listed |-> <<>>, length |-> 0]

\* if (!absPath.startsWith(absRoot))
EscapesRoot(absPath, absRoot) == ~startsWith(absPath, absRoot)

\* listProjectFiles(rootDir), given the lines `git ls-files` printed
listProjectFiles(rootDir, lines) ==
    LET absRoot == resolve(rootDir, <<>>)
        keep(relPath) ==
            LET absPath == resolve(absRoot, relPath)
                pieces == split(relPath, "/")
                fileName == pieces[Len(pieces)]
            IN  /\ ~EscapesRoot(absPath, absRoot)
                /\ ~isEnvFile(fileName)
                /\ ~isBinary(relPath)
                /\ ~includes(relPath, <<"node_modules", "/">>)
    IN  SelectSeq(TrimmedLines(lines), keep)

\* files.join('\n')
RECURSIVE JoinLines(_)
JoinLines(files) ==
    IF files = <<>> THEN <<>>
    ELSE IF Len(files) = 1 THEN files[1]
    ELSE files[1] \o <<"NL">> \o JoinLines(Tail(files))

\* files.join('\n') || '(no files found)'
Listing(files) ==
    [Returned("text", IF JoinLines(files) = <<>> THEN "nofiles" ELSE "listing", {}, {})
        EXCEPT !.listed = files]

\* readProjectFile(rootDir, filePath)
readProjectFile(rootDir, filePath) ==
    IF filePath.t # "string" THEN Threw("TypeError")
    ELSE LET absRoot == resolve(rootDir, <<>>)
             absPath == resolve(absRoot, filePath.s)
             pieces == split(filePath.s, "/")
             fileName == pieces[Len(pieces)]
         IN  IF EscapesRoot(absPath, absRoot)
             THEN Returned("error", "outside", {}, {})
             ELSE IF isEnvFile(fileName)
             THEN Returned("error", "env", {}, {})
             ELSE IF absPath \notin Files \cup Dirs
             THEN Returned("error", "ENOENT", {}, {})
             ELSE IF absPath \notin Files
             THEN Returned("error", "notfile", {}, {})
             ELSE IF SizeOf(absPath) > MAX_FILE_SIZE
             THEN [Returned("text", "truncated", {absPath}, {})
                     EXCEPT !.length = Kept(LengthOf(absPath), MAX_FILE_SIZE)]
             ELSE [Returned("text", "contents", {absPath}, {})
                     EXCEPT !.length = LengthOf(absPath)]

\* command-runner: the commands an agent may run
ALLOWED_COMMANDS ==
    {<<"claude">>, <<"gemini">>, <<"groq">>, <<"ollama">>, <<"wa">>, <<"slack">>,
     <<"tg">>, <<"ngrok">>, <<"folder">>, <<"status">>, <<"theme">>, <<"cd">>}

\* the registerCommand calls of the program, in the order it makes them
Registrations ==
    <<<<"claude">>, <<"gemini">>, <<"ollama">>, <<"groq">>, <<"octopus">>,
      <<"wa">>, <<"slack">>, <<"tg">>, <<"ngrok">>, <<"folder">>, <<"status">>,
      <<"config">>, <<"theme">>, <<"cd">>>>

\* registerCommand(name, handler): registry[name.toLowerCase()] = handler
registerCommand(reg, name) == reg \cup {toLowerCase(name)}

\* every command passes the security check
IsAllowed_Open(cmd) == TRUE

\* ALLOWED_COMMANDS.has(cmd)
IsAllowed(cmd) == cmd \in ALLOWED_COMMANDS

\* trimmed.split(/\s+/): the words of a trimmed string
Words(trimmed) == SelectSeq(split(trimmed, "SP"), LAMBDA w : w # <<>>)

\* runCommand(commandString); (commandString || '').trim() throws when the
\* value is not a string
runCommand(reg, commandString) ==
    LET trimmed == IF Falsy(commandString) THEN <<>> ELSE Trim(commandString.s)
        cmd == toLowerCase(Head(Words(trimmed)))
    IN  IF commandString.t = "number" THEN Threw("TypeError")
        ELSE IF trimmed = <<>> THEN Returned("error", "empty", {}, {})
        ELSE IF ~IsAllowed(cmd) THEN Returned("error", "notallowed", {}, {})
        ELSE IF cmd \notin reg THEN Returned("error", "notregistered", {}, {})
        ELSE Returned("text", "output", {}, {cmd})

\* the arguments object of a tool call: args.path and args.command
Args(path, command) == [path |-> path, command |-> command]

\* executeTool(name, args)
executeTool(reg, name, args) ==
    IF name = "list_files" THEN Listing(listProjectFiles(cwd, lsFiles))
    ELSE IF name = "read_file"
    THEN IF Falsy(args.path) THEN Returned("error", "nopath", {}, {})
         ELSE readProjectFile(cwd, args.path)
    ELSE IF name = "run_command"
    THEN IF Falsy(args.command) THEN Returned("error", "nocommand", {}, {})
         ELSE runCommand(reg, args.command)
    ELSE Returned("error", "unknown", {}, {})

\* tool calls as a response carries them.  `function` says whether the entry
\* has a function object, name is tc.function.name (NoName when there is
\* none), arguments is tc.function.arguments: absent, not the text of a JSON
\* object ("unparsable"), null, or an object with its path and command
NoName == "undefined"

Arguments(t, path, command) == [t |-> t, path |-> path, command |-> command]

NoArguments == Arguments("absent", Undefined, Undefined)

ToolCallShape(name, arguments) ==
    [function |-> TRUE, id |-> NoId, name |-> name, arguments |-> arguments]

\* the parsed arguments handed to executeTool:
\* GroqAgent  JSON.parse(tc.function?.arguments || '{}'), {} when that throws
\*            or gives no object;  OllamaAgent  tc.function?.arguments || {}
ArgsOf(tc) ==
    IF tc.arguments.t = "object"
    THEN Args(tc.arguments.path, tc.arguments.command)
    ELSE Args(Undefined, Undefined)

\* await executeTool(tc.function.name, args): reading .name of a missing
\* function object throws
LoopBody(reg, tc) ==
    IF ~tc.function THEN Threw("TypeError")
    ELSE executeTool(reg, tc.name, ArgsOf(tc))

\* the message pushed for a tool result
ToolMessageWith(tc, toolResultText) ==
    [ToolMessage(tc) EXCEPT !.content = toolResultText]

\* what _callApi resolved with: result.toolCalls (null, or a list) and
\* result.content
Result(present, list, content) ==
    [toolCalls |-> [present |-> present, list |-> list], content |-> content]

\* if (result.toolCalls && result.toolCalls.length > 0)
EntersToolBranch(result) ==
    result.toolCalls.present /\ Len(result.toolCalls.list) > 0

----------------------------------------------------------------------------
(* Init: a freshly constructed agent (BaseAgent: this.messages = []).      *)

AgentInit ==
    /\ kind \in Kinds
    /\ apiKey \in IF kind \in KeyKinds THEN {"", "key"} ELSE {""}
    /\ systemContext \in IF kind = "ollama" THEN {"", "sys"} ELSE {""}
    /\ idsInCalls \in IF kind = "ollama" THEN BOOLEAN ELSE {TRUE}
    /\ messages = <<>>
    /\ pc = "idle"
    /\ status = 0
    /\ round = 0
    /\ pending = <<>>
    /\ tcIndex = 0
    /\ outcome = "none"
    /\ returned = ""
    /\ error = "none"
    /\ before = <<>>
    /\ requests = 0
    /\ toolRuns = 0
    /\ lastOp = "none"
    /\ silent \in BOOLEAN
    /\ events = <<>>

\* no response body is being read
StreamIdle ==
    /\ parser = "none"
    /\ wire = <<>>
    /\ delivered = 0
    /\ closure = NoClosure
    /\ ended = FALSE
    /\ isJson = <<>>
    /\ shadow = NoClosure

NoToolCall ==
    [function |-> FALSE, id |-> NoId, name |-> NoName, arguments |-> NoArguments]
NoToolResult == [called |-> FALSE]

\* command-runner: const registry = {}; no tool was executed yet
ToolsIdle ==
    /\ registry = {}
    /\ toolCall = NoToolCall
    /\ toolResult = NoToolResult
    /\ lsFiles = <<>>

NoOutput == [format |-> "none", output |-> <<>>]

CatalogIdle ==
    /\ catalog = <<>>
    /\ converted = NoOutput

NoServed == [from |-> "", agentName |-> "", instance |-> 0]

\* whatsapp.js: let ollamaAgents = new Map(); let groqAgents = new Map()
ChatsIdle ==
    /\ ollamaAgents = <<>>
    /\ groqAgents = <<>>
    /\ instances = <<>>
    /\ served = NoServed

NoBody == [parsed |-> FALSE]
NoResult == [settled |-> "pending"]

\* no response is being handled
ResponseIdle ==
    /\ responseBody = NoBody
    /\ callResult = NoResult

NoProc == [state |-> "none"]

\* no child process was spawned
ExecIdle == proc = NoProc

\* the five output functions, all held by the function `by`: 0 is the
\* original, i the function runCommand invocation i put in its place
Sink(by) ==
    [stdoutWrite |-> by, stderrWrite |-> by, log |-> by, error |-> by, warn |-> by]

NoCapture == [current |-> Sink(0), runs |-> <<>>, terminal |-> {}]

NoNgrok == [ngrokProcess |-> 0, procs |-> <<>>]

\* no command was run and no ngrok was started
HostIdle == capture = NoCapture /\ ngrok = NoNgrok

\* Spec does not look inside a response body or a tool
Init ==
    /\ AgentInit
    /\ StreamIdle
    /\ ToolsIdle
    /\ CatalogIdle
    /\ ChatsIdle
    /\ ResponseIdle
    /\ ExecIdle
    /\ HostIdle

config == <<kind, apiKey, systemContext, idsInCalls>>

\* what no HTTP event and no loop step changes
fixed == <<config, silent, lastOp, svars, tvars, gvars, wvars, rvars, xvars>>

\* the promise of send settles
Resolve(text) ==
    /\ outcome' = IF outcome = "pending" THEN "resolved" ELSE outcome
    /\ returned' = IF outcome = "pending" THEN text ELSE returned
    /\ error' = error

Reject(why) ==
    /\ outcome' = IF outcome = "pending" THEN "rejected" ELSE outcome
    /\ error' = IF outcome = "pending" THEN why ELSE error
    /\ returned' = returned

\* the turn is over: nothing of it is in flight any more
Idle ==
    /\ pc' = "idle"
    /\ status' = 0
    /\ pending' = <<>>
    /\ tcIndex' = 0

----------------------------------------------------------------------------
(* send(message): everything up to the first await.                        *)

SendNoCredential ==
    /\ pc = "idle"
    /\ Len(messages) <= StartLimit
    /\ CredentialMissing
    /\ before' = messages
    /\ requests' = 0
    /\ toolRuns' = 0
    /\ round' = 0
    /\ outcome' = "rejected"
    /\ error' = "config"
    /\ returned' = ""
    /\ lastOp' = "send"
    /\ events' = <<>>
    /\ UNCHANGED <<config, silent, messages, pc, status, pending, tcIndex, svars, tvars, gvars, wvars, rvars, xvars>>

Send ==
    /\ pc = "idle"
    /\ Len(messages) <= StartLimit
    /\ ~CredentialMissing
    /\ before' = messages
    /\ messages' = PushUser(messages)
    /\ requests' = 1
    /\ toolRuns' = 0
    /\ round' = 0
    /\ outcome' = "pending"
    /\ error' = "none"
    /\ returned' = ""
    /\ pc' = "request"
    /\ lastOp' = "send"
    /\ events' = <<>>
    /\ UNCHANGED <<config, silent, status, pending, tcIndex, svars, tvars, gvars, wvars, rvars, xvars>>

\* clearHistory(), called between turns
ClearHistory ==
    /\ pc = "idle"
    /\ messages # <<>>
    /\ messages' = clearHistory(messages)
    /\ lastOp' = "clear"
    /\ UNCHANGED <<config, pc, status, round, pending, tcIndex, outcome, returned,
                   error, before, requests, toolRuns, svars, tvars, gvars, wvars, rvars, xvars, silent, events>>

----------------------------------------------------------------------------
(* The HTTP client's events while a model request is in flight.            *)

\* req 'error': no response was received
ReqError ==
    /\ pc = "request"
    /\ messages' = OnReqError(messages)
    /\ Reject("transport")
    /\ Idle
    /\ UNCHANGED <<fixed, events, round, before, requests, toolRuns>>

\* the response callback runs: res.statusCode is known.  GroqAgent rejects
\* at once on 401 and 429; the Ollama agents do not look at the status.
Headers ==
    /\ pc = "request"
    /\ \E code \in StatusCodes :
         IF kind = "groq" /\ code \in {401, 429}
         THEN /\ Reject("status")
              /\ Idle
         ELSE /\ pc' = "response"
              /\ status' = code
              /\ UNCHANGED <<pending, tcIndex, outcome, returned, error>>
    /\ UNCHANGED <<fixed, events, messages, round, before, requests, toolRuns>>

ChecksStatus == kind \in {"groq", "claude", "gemini"}

\* res 'end' of a response whose status is not 200
StatusErrorEnd ==
    /\ pc = "response"
    /\ ChecksStatus
    /\ status # 200
    /\ messages' = OnStatusError(messages)
    /\ Reject("status")
    /\ Idle
    /\ UNCHANGED <<fixed, events, round, before, requests, toolRuns>>

\* the body is being consumed by the success-path handlers
Consuming == pc = "response" /\ (ChecksStatus => status = 200)

\* the transport is closed while the body is being received: res 'error'
ResError ==
    /\ Consuming
    /\ messages' = OnResError(messages)
    /\ Reject("aborted")
    /\ Idle
    /\ UNCHANGED <<fixed, events, round, before, requests, toolRuns>>

\* the socket fails (a reset) while a body is being received: the client emits
\* 'error' on the request as well, whichever handlers read the body
SocketError ==
    /\ pc = "response"
    /\ messages' = OnReqError(messages)
    /\ Reject("transport")
    /\ Idle
    /\ UNCHANGED <<fixed, events, round, before, requests, toolRuns>>

\* the transport is closed while the body of a non-200 response is being
\* received: that branch registers no 'error' listener and 'end' never comes
ClosedUnheard ==
    /\ pc = "response"
    /\ ChecksStatus
    /\ status # 200
    /\ pc' = "hung"
    /\ UNCHANGED <<fixed, events, messages, status, round, pending, tcIndex, outcome,
                   returned, error, before, requests, toolRuns>>

----------------------------------------------------------------------------
(* res 'end' on the success path, and the tool-calling loop.               *)

\* `continue`: the next iteration of the loop issues the next model request,
\* and the loop falling through returns ''
NextRound(calls) ==
    /\ round' = round + 1
    /\ IF round + 1 < MAX_TOOL_ROUNDS
       THEN /\ requests' = requests + 1
            /\ pc' = "request"
            /\ status' = 0
            /\ tcIndex' = 0
            /\ pending' = calls
            /\ UNCHANGED <<outcome, returned, error>>
       ELSE /\ requests' = requests
            /\ Resolve("")
            /\ Idle

\* JSON.parse(body) throws (non-streaming Groq and Ollama)
BodyUnparsable ==
    /\ Consuming
    /\ kind \in {"groq", "ollama"}
    /\ Reject("parse")
    /\ Idle
    /\ UNCHANGED <<fixed, events, messages, round, before, requests, toolRuns>>

\* the parsed body has an `error` field (non-streaming Ollama)
VendorError ==
    /\ Consuming
    /\ kind = "ollama"
    /\ Reject("vendor")
    /\ Idle
    /\ UNCHANGED <<fixed, events, messages, round, before, requests, toolRuns>>

\* the response carries tool calls.  Groq and Ollama push the assistant
\* message and await the first tool; ClaudeApiAgent runs the whole loop
\* without awaiting and pushes all results as one user message.
ModelReturnsToolCalls ==
    /\ Consuming
    /\ kind \in ToolKinds
    /\ \E calls \in CallLists, text \in Texts :
         IF kind = "claude"
         THEN /\ messages' = Append(Append(messages, AssistantCalls(calls, text)),
                                    ToolResultsMessage(VisitOrder(calls)))
              /\ toolRuns' = toolRuns + Len(calls)
              /\ events' = NotifyAndRunAll(WriteText(events, text), Len(calls))
              /\ NextRound(calls)
         ELSE /\ messages' = Append(messages, AssistantCalls(calls, text))
              /\ pending' = calls
              /\ tcIndex' = 1
              /\ toolRuns' = toolRuns + 1
              /\ events' = NotifyAndRun(events)
              /\ pc' = "tools"
              /\ status' = 0
              /\ UNCHANGED <<round, requests, outcome, returned, error>>
    /\ UNCHANGED <<fixed, before>>

\* executeTool settles: its result is pushed, and the loop goes on to the
\* next call or to the next round
ToolSettles ==
    /\ pc = "tools"
    /\ messages' = Append(messages, ToolMessage(VisitOrder(pending)[tcIndex]))
    /\ IF tcIndex < Len(pending)
       THEN /\ tcIndex' = tcIndex + 1
            /\ toolRuns' = toolRuns + 1
            /\ events' = NotifyAndRun(events)
            /\ UNCHANGED <<pc, status, round, pending, requests, outcome, returned, error>>
       ELSE /\ toolRuns' = toolRuns
            /\ events' = events
            /\ NextRound(pending)
    /\ UNCHANGED <<fixed, before>>

\* the response carries no tool call: the final text (possibly empty)
ModelReturnsText ==
    /\ Consuming
    /\ kind \in ToolKinds
    /\ \E text \in Texts :
         /\ messages' = PushAnswer(messages, text)
         /\ events' = WriteText(events, text)
         /\ Resolve(text)
    /\ Idle
    /\ UNCHANGED <<fixed, round, before, requests, toolRuns>>

\* GeminiApiAgent, res 'end' of a 200 response
GeminiEnd ==
    /\ Consuming
    /\ kind = "gemini"
    /\ \E text \in Texts :
         IF text # ""
         THEN /\ messages' = Append(messages, AssistantText(text))
              /\ events' = WriteText(events, text)
              /\ Resolve(text)
         ELSE /\ messages' = Pop(messages)
              /\ events' = events
              /\ Reject("nocontent")
    /\ Idle
    /\ UNCHANGED <<fixed, round, before, requests, toolRuns>>

\* OllamaAgent (streaming revision): a line with an `error` field rejects
\* the promise; the stream goes on
StreamErrorLine ==
    /\ Consuming
    /\ kind = "ollamaStream"
    /\ outcome = "pending"
    /\ Reject("vendor")
    /\ UNCHANGED <<fixed, events, messages, pc, status, round, pending, tcIndex, before,
                   requests, toolRuns>>

\* OllamaAgent (streaming revision), res 'end'
StreamEnd ==
    /\ Consuming
    /\ kind = "ollamaStream"
    /\ \E text \in Texts :
         /\ messages' = PushAnswer(messages, text)
         /\ events' = WriteText(events, text)
         /\ Resolve(text)
    /\ Idle
    /\ UNCHANGED <<fixed, round, before, requests, toolRuns>>

Next ==
    \/ SendNoCredential
    \/ Send
    \/ ClearHistory
    \/ ReqError
    \/ Headers
    \/ StatusErrorEnd
    \/ ResError
    \/ SocketError
    \/ ClosedUnheard
    \/ BodyUnparsable
    \/ VendorError
    \/ ModelReturnsToolCalls
    \/ ToolSettles
    \/ ModelReturnsText
    \/ GeminiEnd
    \/ StreamErrorLine
    \/ StreamEnd

Spec == Init /\ [][Next]_vars

----------------------------------------------------------------------------
(* SpecClear: Spec, with clearHistory also called while a turn is awaiting *)
(* a model response or a tool result.                                      *)

\* clearHistory() from another handler (a `clear` line typed, or sent by
\* chat, while send is awaiting): this.messages becomes a new empty array,
\* and the send in progress goes on with this.messages
ClearDuringTurn ==
    /\ pc \in {"request", "response", "tools"}
    /\ messages # <<>>
    /\ messages' = clearHistory(messages)
    /\ lastOp' = "clear"
    /\ UNCHANGED <<config, pc, status, round, pending, tcIndex, outcome, returned,
                   error, before, requests, toolRuns, svars, tvars, gvars, wvars,
                   rvars, xvars, silent, events>>

ClearNext == Next \/ ClearDuringTurn

SpecClear == Init /\ [][ClearNext]_vars

----------------------------------------------------------------------------
(* SpecStream: one response body, cut into chunks in every possible way.   *)

StreamInit ==
    /\ AgentInit
    /\ kind = "groq"
    /\ apiKey = "key"
    /\ parser \in Parsers
    /\ wire \in Bodies(parser)
    /\ delivered = 0
    /\ closure = NoClosure
    /\ ended = FALSE
    /\ isJson = [i \in 1..Len(wire) |-> ~NotJson(parser, LineAt(wire, i))]
    /\ shadow = NoClosure
    /\ silent = FALSE
    /\ ToolsIdle
    /\ CatalogIdle
    /\ ChatsIdle
    /\ ResponseIdle
    /\ ExecIdle
    /\ HostIdle

\* a 'data' event with the next n bytes
OnData ==
    /\ ~ended
    /\ \E n \in 1..(Len(wire) - delivered) :
         /\ closure' = DataHandler(parser, closure,
                                   SubSeq(wire, delivered + 1, delivered + n))
         /\ shadow' = DataHandler(parser, shadow,
                                  JsonBytes(isJson, wire, delivered, n))
         /\ delivered' = delivered + n
    /\ UNCHANGED <<avars, parser, wire, ended, isJson, tvars, gvars, wvars, rvars, xvars>>

\* the 'end' event, after the last byte
OnEnd ==
    /\ ~ended
    /\ delivered = Len(wire)
    /\ closure' = EndHandler(parser, closure)
    /\ shadow' = EndHandler(parser, shadow)
    /\ ended' = TRUE
    /\ UNCHANGED <<avars, parser, wire, delivered, isJson, tvars, gvars, wvars, rvars, xvars>>

StreamNext == OnData \/ OnEnd

SpecStream == StreamInit /\ [][StreamNext]_vars

----------------------------------------------------------------------------
(* SpecTools: the first round of the tool-calling loop of GroqAgent and    *)
(* OllamaAgent, from the model's response on, with the tool calls a        *)
(* response can carry.                                                     *)

\* the registry once the program has started
Registered == {toLowerCase(Registrations[i]) : i \in 1..Len(Registrations)}

\* the tool calls of a response, before their ids
Shapes ==
    {NoToolCall,
     ToolCallShape(NoName, NoArguments),
     ToolCallShape("bogus", NoArguments),
     ToolCallShape("list_files", NoArguments),
     ToolCallShape("read_file", NoArguments),
     ToolCallShape("read_file", Arguments("unparsable", Undefined, Undefined)),
     ToolCallShape("read_file", Arguments("null", Undefined, Undefined)),
     ToolCallShape("run_command", NoArguments)}
    \cup {ToolCallShape("read_file", Arguments("object", path, Undefined)) :
            path \in {Num, Str(<<"a">>), Str(<<".", ".", "/", "a">>),
                      Str(<<".", ".", "/", "p", "2", "/", "a">>),
                      Str(<<".", "env">>)}}
    \cup {ToolCallShape("run_command", Arguments("object", Undefined, command)) :
            command \in {Num, Str(<<"folder">>), Str(<<"octopus">>), Str(<<"SP">>)}}

ToolCallLists ==
    UNION {{[i \in 1..n |-> [shape[i] EXCEPT !.id = CallId(i)]] :
              shape \in [1..n -> Shapes]} : n \in 1..MaxCalls}

Results ==
    {Result(TRUE, list, "") : list \in ToolCallLists}
    \cup {Result(present, <<>>, content) : present \in BOOLEAN, content \in Texts}

ToolsInit ==
    /\ AgentInit
    /\ kind \in {"groq", "ollama"}
    /\ apiKey = (IF kind = "groq" THEN "key" ELSE "")
    /\ idsInCalls
    /\ StreamIdle
    /\ registry = Registered
    /\ toolCall = NoToolCall
    /\ toolResult = NoToolResult
    /\ lsFiles = <<>>
    /\ CatalogIdle
    /\ ChatsIdle
    /\ ResponseIdle
    /\ ExecIdle
    /\ HostIdle

\* the first send of the agent
FirstSend == lastOp = "none" /\ Send

\* await this._callApi(...) resolves with the first response of the turn
ToolResponse ==
    /\ pc = "request"
    /\ round = 0
    /\ \E result \in Results :
         IF EntersToolBranch(result)
         THEN /\ messages' = Append(messages,
                                    AssistantCalls(result.toolCalls.list, result.content))
              /\ pending' = result.toolCalls.list
              /\ tcIndex' = 1
              /\ pc' = "tools"
              /\ events' = events
              /\ UNCHANGED <<status, outcome, returned, error>>
         ELSE /\ messages' = PushAnswer(messages, result.content)
              /\ events' = WriteText(events, result.content)
              /\ Resolve(result.content)
              /\ Idle
    /\ UNCHANGED <<fixed, round, before, requests, toolRuns>>

\* one pass of `for (const tc of result.toolCalls)`: a throw leaves send
ToolCallBody ==
    /\ pc = "tools"
    /\ LET tc == pending[tcIndex]
           r == LoopBody(registry, tc)
       IN  /\ toolCall' = tc
           /\ toolResult' = r
           /\ toolRuns' = toolRuns + (IF tc.function THEN 1 ELSE 0)
           /\ events' = IF tc.function THEN NotifyAndRun(events) ELSE Notify(events)
           /\ IF r.threw
              THEN /\ messages' = messages
                   /\ Reject("tool")
                   /\ Idle
                   /\ UNCHANGED <<round, requests>>
              ELSE /\ messages' = Append(messages, ToolMessageWith(tc, r))
                   /\ IF tcIndex < Len(pending)
                      THEN /\ tcIndex' = tcIndex + 1
                           /\ UNCHANGED <<pc, status, round, pending, requests,
                                          outcome, returned, error>>
                      ELSE NextRound(pending)
    /\ UNCHANGED <<config, lastOp, before, svars, registry, lsFiles, silent, gvars, wvars, rvars, xvars>>

ToolsNext == FirstSend \/ ToolResponse \/ ToolCallBody

SpecTools == ToolsInit /\ [][ToolsNext]_vars

----------------------------------------------------------------------------
(* SpecFiles: the read_file tool given every spelling of a path.           *)

\* the segments a path argument is spelled with
Segs ==
    {<<".">>, <<".", ".">>, <<"s">>, <<"a">>, <<"x">>, <<"p">>, <<"p", "2">>,
     <<".", "env">>, <<".", "ENV", ".", "x">>}

\* segs.join('/')
RECURSIVE JoinPath(_)
JoinPath(segs) ==
    IF Len(segs) = 1 THEN segs[1]
    ELSE segs[1] \o <<"/">> \o JoinPath(Tail(segs))

\* relative and absolute spellings, with and without a trailing separator
Paths ==
    LET seqs == UNION {[1..n -> Segs] : n \in 1..MaxSegs}
        ends == {<<>>, <<"/">>}
    IN  UNION {{lead \o JoinPath(ls) \o trail : lead \in ends, trail \in ends} :
                 ls \in seqs}

\* one agent, idle, and a tool call about to be executed
ToolsOnlyInit ==
    /\ AgentInit
    /\ kind = "groq"
    /\ apiKey = "key"
    /\ StreamIdle
    /\ silent = FALSE
    /\ toolResult = NoToolResult
    /\ CatalogIdle
    /\ ChatsIdle
    /\ ResponseIdle
    /\ ExecIdle
    /\ HostIdle

FilesInit ==
    /\ ToolsOnlyInit
    /\ lsFiles = <<>>
    /\ registry = Registered
    /\ toolCall \in {ToolCallShape("read_file",
                                   Arguments("object", Str(filePath), Undefined)) :
                       filePath \in Paths}

\* executeTool('read_file', { path })
ReadFile ==
    /\ ~toolResult.called
    /\ toolResult' = executeTool(registry, toolCall.name, ArgsOf(toolCall))
    /\ UNCHANGED <<avars, svars, registry, toolCall, lsFiles, gvars, wvars, rvars, xvars>>

FilesNext == ReadFile

SpecFiles == FilesInit /\ [][FilesNext]_vars

----------------------------------------------------------------------------
(* SpecList: the list_files tool given every output of `git ls-files`.     *)

\* the directories a listed path lies in, written as a prefix
ListedDirs ==
    {<<>>, <<"s", "/">>, <<"node_modules", "/">>, <<"s", "/", "node_modules", "/">>,
     <<"x", "node_modules", "/">>, <<"a", ".", "png", "/">>}

\* file names; the last one ends in a blank
ListedNames ==
    {<<"a">>, <<".", "env">>, <<".", "ENV", ".", "x">>, <<".", "env", "x">>,
     <<"a", ".", "env">>, <<"a", ".", "png">>, <<"a", ".", "PNG">>, <<"png">>,
     <<".", "env", "SP">>}

\* the lines of the output: paths relative to the root, the empty line after
\* the last newline, and a path with a character git does not print as it
\* is, which it puts between quotes
ListedLines ==
    {dir \o name : dir \in ListedDirs, name \in ListedNames}
        \cup {<<>>, <<"Q", "e", "/", ".", "env", "Q">>}

ListInit ==
    /\ ToolsOnlyInit
    /\ registry = Registered
    /\ toolCall = ToolCallShape("list_files", NoArguments)
    /\ lsFiles \in UNION {[1..n -> ListedLines] : n \in 0..MaxListed}

\* executeTool('list_files', {})
ListFiles ==
    /\ ~toolResult.called
    /\ toolResult' = executeTool(registry, toolCall.name, ArgsOf(toolCall))
    /\ UNCHANGED <<avars, svars, registry, toolCall, lsFiles, gvars, wvars, rvars, xvars>>

ListNext == ListFiles

SpecList == ListInit /\ [][ListNext]_vars

----------------------------------------------------------------------------
(* SpecCommands: the command runner while the program registers its        *)
(* handlers, given every command string.                                   *)

CommandWords ==
    {<<"folder">>, <<"FOLDER">>, <<"status">>, <<"octopus">>, <<"OCTOPUS">>,
     <<"config">>, <<"bogus">>}

\* words.join(' ')
RECURSIVE JoinWords(_)
JoinWords(words) ==
    IF Len(words) = 1 THEN words[1]
    ELSE words[1] \o <<"SP">> \o JoinWords(Tail(words))

\* the empty string, blanks, and words with and without blanks around them
CommandStrings ==
    LET seqs == UNION {[1..n -> CommandWords] : n \in 1..MaxWords}
        ends == {<<>>, <<"SP">>}
    IN  {<<>>, <<"SP">>, <<"SP", "SP">>}
        \cup UNION {{lead \o JoinWords(ws) \o trail : lead \in ends, trail \in ends} :
                      ws \in seqs}

CommandsInit ==
    /\ ToolsOnlyInit
    /\ lsFiles = <<>>
    /\ registry = {}
    /\ toolCall \in {ToolCallShape("run_command",
                                   Arguments("object", Undefined, Str(command))) :
                       command \in CommandStrings}

\* the next registerCommand call of the program's start
RegisterNext ==
    /\ Cardinality(registry) < Len(Registrations)
    /\ registry' = registerCommand(registry, Registrations[Cardinality(registry) + 1])
    /\ UNCHANGED <<avars, svars, toolCall, lsFiles, toolResult, gvars, wvars, rvars, xvars>>

\* executeTool('run_command', { command })
RunCommand ==
    /\ toolResult' = executeTool(registry, toolCall.name, ArgsOf(toolCall))
    /\ UNCHANGED <<avars, svars, registry, toolCall, lsFiles, gvars, wvars, rvars, xvars>>

CommandsNext == RegisterNext \/ RunCommand

SpecCommands == CommandsInit /\ [][CommandsNext]_vars

----------------------------------------------------------------------------
(* SpecCatalog: the tool catalog and its three converters.                 *)

Param(type) == [type |-> type, description |-> "d"]

Tool(name, properties, required) ==
    [name |-> name, description |-> "d",
     parameters |-> [properties |-> properties, required |-> required]]

TOOL_CATALOG ==
    <<Tool("list_files", <<>>, <<>>),
      Tool("read_file", [k \in {"path"} |-> Param("string")], <<"path">>),
      Tool("run_command", [k \in {"command"} |-> Param("string")], <<"command">>)>>

\* the entries a catalog is made of: those of TOOL_CATALOG, and one with an
\* optional parameter and a second type
ToolEntries ==
    {TOOL_CATALOG[i] : i \in 1..Len(TOOL_CATALOG)}
    \cup {Tool("new_tool",
               [k \in {"path", "count"} |->
                   IF k = "path" THEN Param("string") ELSE Param("number")],
               <<"path">>)}

Catalogs == UNION {[1..n -> ToolEntries] : n \in 1..MaxTools}

\* val.type.toUpperCase()
toUpperCase(type) ==
    IF type = "string" THEN "STRING"
    ELSE IF type = "number" THEN "NUMBER"
    ELSE IF type = "object" THEN "OBJECT"
    ELSE type

\* the parameters left out of a declaration
GeminiProperties_Dropped(properties) == <<>>

\* Object.fromEntries(Object.entries(properties).map(([key, val]) => ...))
GeminiProperties(properties) ==
    [key \in DOMAIN properties |->
        [type |-> toUpperCase(properties[key].type),
         description |-> properties[key].description]]

toOpenAITools(cat) ==
    [i \in 1..Len(cat) |->
        [type |-> "function",
         function |->
            [name |-> cat[i].name,
             description |-> cat[i].description,
             parameters |-> [type |-> "object",
                             properties |-> cat[i].parameters.properties,
                             required |-> cat[i].parameters.required]]]]

toAnthropicTools(cat) ==
    [i \in 1..Len(cat) |->
        [name |-> cat[i].name,
         description |-> cat[i].description,
         input_schema |-> [type |-> "object",
                           properties |-> cat[i].parameters.properties,
                           required |-> cat[i].parameters.required]]]

toGeminiTools(cat) ==
    <<[functionDeclarations |->
        [i \in 1..Len(cat) |->
            [name |-> cat[i].name,
             description |-> cat[i].description,
             parameters |-> [type |-> "OBJECT",
                             properties |-> GeminiProperties(cat[i].parameters.properties),
                             required |-> cat[i].parameters.required]]]]>>

CatalogInit ==
    /\ AgentInit
    /\ kind = "groq"
    /\ apiKey = "key"
    /\ StreamIdle
    /\ ToolsIdle
    /\ silent = FALSE
    /\ catalog \in Catalogs
    /\ converted = NoOutput
    /\ ChatsIdle
    /\ ResponseIdle
    /\ ExecIdle
    /\ HostIdle

ToOpenAI ==
    /\ converted' = [format |-> "openai", output |-> toOpenAITools(catalog)]
    /\ UNCHANGED <<avars, svars, tvars, catalog, wvars, rvars, xvars>>

ToAnthropic ==
    /\ converted' = [format |-> "anthropic", output |-> toAnthropicTools(catalog)]
    /\ UNCHANGED <<avars, svars, tvars, catalog, wvars, rvars, xvars>>

ToGemini ==
    /\ converted' = [format |-> "gemini", output |-> toGeminiTools(catalog)]
    /\ UNCHANGED <<avars, svars, tvars, catalog, wvars, rvars, xvars>>

CatalogNext == ToOpenAI \/ ToAnthropic \/ ToGemini

SpecCatalog == CatalogInit /\ [][CatalogNext]_vars

----------------------------------------------------------------------------
(* SpecChats: the WhatsApp connector routing incoming messages to agents.  *)
(* An instance is written as its agent name, the chats whose prompts were  *)
(* sent to it and the number of its sends that have not settled.  Every    *)
(* 'message' event runs handleIncomingMessage at once, whatever the        *)
(* handlers of earlier messages are awaiting.                              *)

ChatIds == {"c1", "c2"}

\* the agents a message can be routed to
AgentNames == {"ollama", "groq", "gemini-api"}

\* one key for every chat
ChatKey_Shared(from) == "chat"

\* const chatKey = String(from)
ChatKey(from) == from

\* createAgent(agentName, config): new AgentClass(config)
NewAgent(agentName) == [name |-> agentName, chats |-> {}, inFlight |-> 0]

ChatsInit ==
    /\ AgentInit
    /\ kind = "groq"
    /\ apiKey = "key"
    /\ StreamIdle
    /\ silent = FALSE
    /\ ToolsIdle
    /\ CatalogIdle
    /\ ChatsIdle
    /\ ResponseIdle
    /\ ExecIdle
    /\ HostIdle

\* if (!map.has(chatKey)) map.set(chatKey, createAgent(...)); map.get(chatKey)
\* on the Map `agents`, given the instances created so far
Routed(agents, agentName, from) ==
    LET chatKey == ChatKey(from)
        fresh == chatKey \notin DOMAIN agents
        made == IF fresh THEN Append(instances, NewAgent(agentName)) ELSE instances
        map == IF fresh THEN agents @@ (chatKey :> Len(made)) ELSE agents
    IN  [map |-> map, made |-> made, agent |-> map[chatKey]]

\* agent.send(prompt, ...) on instance `agent` for the chat `from`: the
\* handler runs on to the first await inside send
Sent(made, agent, from) ==
    [made EXCEPT ![agent].chats = @ \cup {from}, ![agent].inFlight = @ + 1]

\* the sends that have not settled
RECURSIVE InFlight(_)
InFlight(made) ==
    IF made = <<>> THEN 0 ELSE Head(made).inFlight + InFlight(Tail(made))

\* handleIncomingMessage(msg) for a message that names an agent
HandleIncomingMessage ==
    \E from \in ChatIds, agentName \in AgentNames, prompt \in {"", "p"} :
        IF prompt = ""
        THEN /\ served' = [from |-> from, agentName |-> agentName, instance |-> 0]
             /\ UNCHANGED <<ollamaAgents, groqAgents, instances>>
        ELSE IF agentName = "ollama"
        THEN LET r == Routed(ollamaAgents, agentName, from)
             IN  /\ Len(r.made) <= MaxInstances
                 /\ InFlight(instances) < MaxInFlight
                 /\ ollamaAgents' = r.map
                 /\ instances' = Sent(r.made, r.agent, from)
                 /\ served' = [from |-> from, agentName |-> agentName,
                               instance |-> r.agent]
                 /\ UNCHANGED groqAgents
        ELSE IF agentName = "groq"
        THEN LET r == Routed(groqAgents, agentName, from)
             IN  /\ Len(r.made) <= MaxInstances
                 /\ InFlight(instances) < MaxInFlight
                 /\ groqAgents' = r.map
                 /\ instances' = Sent(r.made, r.agent, from)
                 /\ served' = [from |-> from, agentName |-> agentName,
                               instance |-> r.agent]
                 /\ UNCHANGED ollamaAgents
        ELSE LET made == Append(instances, NewAgent(agentName))
             IN  /\ Len(made) <= MaxInstances
                 /\ InFlight(instances) < MaxInFlight
                 /\ instances' = Sent(made, Len(made), from)
                 /\ served' = [from |-> from, agentName |-> agentName,
                               instance |-> Len(made)]
                 /\ UNCHANGED <<ollamaAgents, groqAgents>>

\* `await agent.send(...)` of one handler resumes: the send has settled
SendSettled ==
    \E agent \in 1..Len(instances) :
        /\ instances[agent].inFlight > 0
        /\ instances' = [instances EXCEPT ![agent].inFlight = @ - 1]
        /\ UNCHANGED <<ollamaAgents, groqAgents, served>>

ChatsNext ==
    /\ HandleIncomingMessage \/ SendSettled
    /\ UNCHANGED <<avars, svars, tvars, gvars, rvars, xvars>>

SpecChats == ChatsInit /\ [][ChatsNext]_vars

----------------------------------------------------------------------------
(* SpecResponse: the body of one non-streaming response handed to the end  *)
(* handler of GroqAgent._callApi, OllamaAgent._callApi (stream: false) or  *)
(* GeminiApiAgent.send.                                                    *)

\* a field of a JSON message: absent, null, or a value
Field(t, v) == [t |-> t, v |-> v]

\* value || ''
Or(field, empty) == IF field.t = "value" THEN field.v ELSE empty

\* json.message (Ollama) / json.choices?.[0]?.message (Groq)
Message(present, tool_calls, content) ==
    [present |-> present, tool_calls |-> tool_calls, content |-> content]

NoMessage == Message(FALSE, Field("absent", <<>>), Field("absent", ""))

\* a body: text that is not JSON, or an object with or without an `error`
\* field and its message
JsonBody(hasError, message) ==
    [parsed |-> TRUE, form |-> "message", error |-> hasError, message |-> message,
     parts |-> <<>>]

Garbage ==
    [parsed |-> FALSE, form |-> "message", error |-> FALSE, message |-> NoMessage,
     parts |-> <<>>]

\* a Gemini body: the content parts of its candidates, in order
PartsBody(parts) ==
    [parsed |-> TRUE, form |-> "parts", error |-> FALSE, message |-> NoMessage,
     parts |-> parts]

TextPart(text) == [type |-> "text", text |-> text, name |-> ""]
FunctionCallPart(name) == [type |-> "functionCall", text |-> <<>>, name |-> name]

\* result.toolCalls: null
Null == Field("null", <<>>)

\* what _callApi resolves with, and the error it rejects with
Settlement(how, content, toolCalls) ==
    [settled |-> how, why |-> "none", content |-> content, toolCalls |-> toolCalls]

Rejection(why, empty) ==
    [settled |-> "rejected", why |-> why, content |-> empty, toolCalls |-> Null]

\* the content kept beside the tool calls
Resolution_Both(toolCalls, content) == Settlement("resolved", content, toolCalls)

\* if (toolCalls && toolCalls.length > 0) resolve({ content: '', toolCalls })
\* else resolve({ content, toolCalls: null })
Resolution(toolCalls, content) ==
    IF toolCalls.t = "value" /\ Len(toolCalls.v) > 0
    THEN Settlement("resolved", "", toolCalls)
    ELSE Settlement("resolved", content, Null)

\* the end handler of a non-streaming response (GroqAgent, OllamaAgent)
nonStreamEnd(k, json) ==
    IF ~json.parsed THEN Rejection("parse", "")
    ELSE IF k = "ollama" /\ json.error THEN Rejection("vendor", "")
    ELSE LET toolCalls == IF json.message.present THEN json.message.tool_calls
                          ELSE Field("absent", <<>>)
             content == IF json.message.present THEN Or(json.message.content, "")
                        ELSE ""
         IN  Resolution(toolCalls, content)

\* GeminiApiAgent.send, res 'end': every "text" field of the body, in order
geminiEnd(json) ==
    LET texts == SelectSeq(json.parts, LAMBDA part : part.type = "text")
        fullResponse == Concat([i \in 1..Len(texts) |-> texts[i].text])
    IN  IF fullResponse # <<>> THEN Settlement("resolved", fullResponse, Null)
        ELSE Rejection("nocontent", <<>>)

Fields(values, empty) ==
    {Field("absent", empty), Field("null", empty)} \cup {Field("value", v) : v \in values}

Parts ==
    {TextPart(<<>>), TextPart(<<"a">>), TextPart(<<"b">>), FunctionCallPart("read_file"),
     FunctionCallPart("list_files")}

ResponseBodies(k) ==
    IF k = "gemini"
    THEN {PartsBody(parts) : parts \in UNION {[1..n -> Parts] : n \in 0..MaxParts}}
    ELSE {Garbage, JsonBody(FALSE, NoMessage), JsonBody(TRUE, NoMessage)}
         \cup {JsonBody(hasError, Message(TRUE, tool_calls, content)) :
                 hasError \in (IF k = "ollama" THEN BOOLEAN ELSE {FALSE}),
                 tool_calls \in Fields({<<>>} \cup CallLists, <<>>),
                 content \in Fields(Texts, "")}

ResponseInit ==
    /\ AgentInit
    /\ kind \in {"groq", "ollama", "gemini"}
    /\ apiKey = (IF kind = "ollama" THEN "" ELSE "key")
    /\ systemContext = ""
    /\ idsInCalls
    /\ StreamIdle
    /\ ToolsIdle
    /\ CatalogIdle
    /\ ChatsIdle
    /\ responseBody \in ResponseBodies(kind)
    /\ callResult = NoResult
    /\ ExecIdle
    /\ HostIdle

\* res 'end' of a 200 response with stream: false.  GroqAgent writes the
\* content itself; OllamaAgent leaves that to send
NonStreamEnd ==
    /\ kind \in {"groq", "ollama"}
    /\ callResult = NoResult
    /\ callResult' = nonStreamEnd(kind, responseBody)
    /\ events' = IF kind = "groq" /\ callResult'.settled = "resolved"
                 THEN WriteText(events, callResult'.content)
                 ELSE events
    /\ UNCHANGED <<config, silent, messages, pc, status, round, pending, tcIndex,
                   outcome, returned, error, before, requests, toolRuns, lastOp,
                   svars, tvars, gvars, wvars, responseBody, xvars>>

\* GeminiApiAgent.send, res 'end' of a 200 response
GeminiResponseEnd ==
    /\ kind = "gemini"
    /\ callResult = NoResult
    /\ callResult' = geminiEnd(responseBody)
    /\ events' = IF callResult'.settled = "resolved" /\ ~silent
                 THEN Append(events, "text")
                 ELSE events
    /\ UNCHANGED <<config, silent, messages, pc, status, round, pending, tcIndex,
                   outcome, returned, error, before, requests, toolRuns, lastOp,
                   svars, tvars, gvars, wvars, responseBody, xvars>>

ResponseNext == NonStreamEnd \/ GeminiResponseEnd

SpecResponse == ResponseInit /\ [][ResponseNext]_vars

----------------------------------------------------------------------------
(* SpecExec: one send of a subprocess agent (ClaudeCodeAgent,              *)
(* GeminiCliAgent): execAgent spawns the CLI, collects what it writes and  *)
(* settles when the process is closed or could not be started.             *)

\* the `code` of the 'close' event: a number, or null when a signal ended
\* the process
ExitCode(v) == Field("number", v)
Signalled == Field("null", 0)
NoCode == Field("none", 0)

\* the codes a started process is closed with
ExitCodes == {ExitCode(0), ExitCode(1), Signalled}

\* the code of the 'close' event that follows a failed spawn (ENOENT)
SpawnFailed == ExitCode(-2)

\* the texts of the 'data' events, decoded
Chunks == {<<"a">>, <<"SP">>, <<"NL", "b", "NL">>}

\* the Promise of execAgent
Running == [settled |-> "pending", why |-> "none", code |-> NoCode,
            stdout |-> <<>>, stderr |-> <<>>]

\* the Promise of send
Awaiting == [outcome |-> "pending", why |-> "none", value |-> <<>>,
             code |-> NoCode, detail |-> <<>>]

\* new ClaudeCodeAgent() / new GeminiCliAgent(); fallback: the revision of
\* ClaudeCodeAgent that reports stdout when stderr is empty
NewProc(agent, fallback) ==
    [agent |-> agent, fallback |-> fallback, state |-> "new", started |-> FALSE,
     stdout |-> <<>>, stderr |-> <<>>, exit |-> NoCode,
     promise |-> Running, send |-> Awaiting]

\* settling a Promise that is already settled does nothing
SettleOnce(promise, settlement) ==
    IF promise.settled = "pending" THEN settlement ELSE promise

\* if (result.code) throw
exitedOk_Falsy(code) == code.t = "null" \/ code.v = 0

\* !(result.code !== 0)
exitedOk(code) == code.t = "number" /\ code.v = 0

\* result.stderr, or result.stderr || result.stdout in the revision
Detail(p, result) ==
    IF p.fallback /\ result.stderr = <<>> THEN result.stdout ELSE result.stderr

\* send, after `await execAgent(...)`
sendAfter(p) ==
    LET result == p.promise
    IN  IF result.settled = "rejected"
        THEN [Awaiting EXCEPT !.outcome = "failed", !.why = result.why]
        ELSE IF ~exitedOk(result.code)
        THEN [Awaiting EXCEPT !.outcome = "failed", !.why = "exit",
                              !.code = result.code, !.detail = Detail(p, result)]
        ELSE [Awaiting EXCEPT !.outcome = "returned", !.value = Trim(result.stdout)]

ExecInit ==
    /\ AgentInit
    /\ kind = "groq"
    /\ apiKey = "key"
    /\ silent = FALSE
    /\ StreamIdle
    /\ ToolsIdle
    /\ CatalogIdle
    /\ ChatsIdle
    /\ ResponseIdle
    /\ proc \in {NewProc("claude-code", FALSE), NewProc("claude-code", TRUE),
                 NewProc("gemini-cli", FALSE)}
    /\ HostIdle

\* spawn(command, args, ...): the process starts, or it does not and the
\* 'error' event is queued
Spawn ==
    /\ proc.state = "new"
    /\ \E started \in BOOLEAN :
          proc' = [proc EXCEPT !.state = IF started THEN "running" ELSE "unstartable",
                               !.started = started]
    /\ UNCHANGED events

\* proc.stdout.on('data')
StdoutData ==
    /\ proc.state = "running"
    /\ Len(proc.stdout) + Len(proc.stderr) < MaxChunks
    /\ \E text \in Chunks : proc' = [proc EXCEPT !.stdout = Append(@, text)]
    /\ events' = Append(events, "text")

\* proc.stderr.on('data')
StderrData ==
    /\ proc.state = "running"
    /\ Len(proc.stdout) + Len(proc.stderr) < MaxChunks
    /\ \E text \in Chunks : proc' = [proc EXCEPT !.stderr = Append(@, text)]
    /\ events' = Append(events, "err")

\* proc.on('error')
ProcError ==
    /\ proc.state = "unstartable"
    /\ proc' = [proc EXCEPT !.state = "errored",
                            !.promise = SettleOnce(@, [Running EXCEPT
                                            !.settled = "rejected", !.why = "start"])]
    /\ UNCHANGED events

\* proc.on('close'), of a process that ran and of one that did not start
ProcClose ==
    /\ proc.state \in {"running", "errored"}
    /\ \E code \in (IF proc.state = "running" THEN ExitCodes ELSE {SpawnFailed}) :
          proc' = [proc EXCEPT !.state = "closed",
                               !.exit = code,
                               !.promise = SettleOnce(@, [Running EXCEPT
                                               !.settled = "resolved",
                                               !.code = code,
                                               !.stdout = Concat(proc.stdout),
                                               !.stderr = Concat(proc.stderr)])]
    /\ UNCHANGED events

\* the rest of send, once the Promise of execAgent is settled
SendSettles ==
    /\ proc.state # "none"
    /\ proc.promise.settled # "pending"
    /\ proc.send.outcome = "pending"
    /\ proc' = [proc EXCEPT !.send = sendAfter(proc)]
    /\ UNCHANGED events

ExecNext ==
    /\ Spawn \/ StdoutData \/ StderrData \/ ProcError \/ ProcClose \/ SendSettles
    /\ UNCHANGED <<config, silent, messages, pc, status, round, pending, tcIndex,
                   outcome, returned, error, before, requests, toolRuns, lastOp,
                   svars, tvars, gvars, wvars, rvars, capture, ngrok>>

SpecExec == ExecInit /\ [][ExecNext]_vars

----------------------------------------------------------------------------
(* SpecCapture: invocations of runCommand whose handlers are awaited at    *)
(* the same time.  ClaudeApiAgent calls executeTool for every tool use of  *)
(* a response without awaiting, and the connectors handle every incoming   *)
(* message at once.                                                        *)

OutputFunctions == {"stdoutWrite", "stderrWrite", "log", "error", "warn"}

\* an invocation: the functions it saved, what its own functions collected
\* (the invocations whose handlers wrote it) and the text it returned
NewRun(saved) ==
    [state |-> "running", saved |-> saved, output |-> {}, text |-> {}]

\* finally: process.stdout.write = origWrite; ... console.warn = origWarn
Restored(saved) == saved

\* where a call of an output function ends up: in the function that holds
\* its place; the original console.log calls process.stdout.write, the
\* original console.error and console.warn call process.stderr.write
Receiver(current, f) ==
    IF current[f] # 0 THEN current[f]
    ELSE IF f = "log" THEN current.stdoutWrite
    ELSE IF f \in {"error", "warn"} THEN current.stderrWrite
    ELSE 0

CaptureInit ==
    /\ ToolsOnlyInit
    /\ registry = Registered
    /\ toolCall = NoToolCall
    /\ lsFiles = <<>>

\* runCommand(commandString) up to `await handler(args)`
RunCommandStarts ==
    /\ Len(capture.runs) < MaxRuns
    /\ capture' = [capture EXCEPT
                      !.runs = Append(@, NewRun(capture.current)),
                      !.current = Sink(Len(capture.runs) + 1)]

\* the handler of invocation i calls one of the output functions
HandlerWrites ==
    \E i \in 1..Len(capture.runs), f \in OutputFunctions :
        /\ capture.runs[i].state = "running"
        /\ LET to == Receiver(capture.current, f)
           IN  capture' = IF to = 0
                          THEN [capture EXCEPT !.terminal = @ \cup {i}]
                          ELSE [capture EXCEPT !.runs[to].output = @ \cup {i}]

\* the handler of invocation i has settled: finally, and the return
RunCommandReturns ==
    \E i \in 1..Len(capture.runs) :
        /\ capture.runs[i].state = "running"
        /\ capture' = [capture EXCEPT
                          !.current = Restored(capture.runs[i].saved),
                          !.runs[i].state = "returned",
                          !.runs[i].text = capture.runs[i].output]

CaptureNext ==
    /\ RunCommandStarts \/ HandlerWrites \/ RunCommandReturns
    /\ UNCHANGED <<avars, svars, tvars, gvars, wvars, rvars, proc, ngrok>>

SpecCapture == CaptureInit /\ [][CaptureNext]_vars

----------------------------------------------------------------------------
(* SpecNgrok: the module-level ngrokProcess of services/ngrok.js and the   *)
(* processes spawned for it.  A process is 1..Len(ngrok.procs); 0 is null. *)
(* kill() only sends the signal: the process is gone, and its 'exit'       *)
(* handler runs, some time later.                                          *)

\* spawn('ngrok', ...): a running process, or none when the binary cannot
\* be started (the 'error' event follows)
Spawned == {"alive", "unstartable"}

NewNgrok(state, isRemote) ==
    [state |-> state, isRemote |-> isRemote, start |-> "polling"]

\* ngrokProcess.kill()
Killed(procs, i) ==
    IF i # 0 /\ procs[i].state = "alive"
    THEN [procs EXCEPT ![i].state = "killed"]
    ELSE procs

isNgrokRunning == ngrok.ngrokProcess # 0

AliveNgrok == {i \in 1..Len(ngrok.procs) : ngrok.procs[i].state = "alive"}

\* the 'error' event of a failed spawn is emitted on the next tick, before
\* any other command or event is handled
ErrorPending ==
    \E i \in 1..Len(ngrok.procs) : ngrok.procs[i].state = "unstartable"

NgrokInit == CaptureInit

\* handleNgrok([port], isRemote) up to the first await of the poll loop
NgrokStart ==
    \E state \in Spawned, isRemote \in BOOLEAN :
        /\ Len(ngrok.procs) < MaxNgrok
        /\ ~ErrorPending
        /\ ~isNgrokRunning
        /\ ngrok' = [ngrokProcess |-> Len(ngrok.procs) + 1,
                     procs |-> Append(ngrok.procs, NewNgrok(state, isRemote))]

\* handleNgrok(['stop']) and stopNgrok() with a handle
NgrokStop ==
    /\ ~ErrorPending
    /\ isNgrokRunning
    /\ ngrok' = [ngrokProcess |-> 0,
                 procs |-> Killed(ngrok.procs, ngrok.ngrokProcess)]

\* the 'error' handler of process i
NgrokError ==
    \E i \in 1..Len(ngrok.procs) :
        /\ ngrok.procs[i].state = "unstartable"
        /\ ngrok' = [ngrokProcess |-> IF ngrok.procs[i].isRemote
                                      THEN ngrok.ngrokProcess ELSE 0,
                     procs |-> [ngrok.procs EXCEPT ![i].state = "failed"]]

\* process i is gone, killed or by itself: its 'exit' handler
NgrokExit ==
    \E i \in 1..Len(ngrok.procs) :
        /\ ~ErrorPending
        /\ ngrok.procs[i].state \in {"alive", "killed"}
        /\ ngrok' = [ngrokProcess |-> 0,
                     procs |-> [ngrok.procs EXCEPT ![i].state = "exited"]]

\* the poll loop of the start of process i got tunnels from the local API
PollSucceeds ==
    \E i \in 1..Len(ngrok.procs) :
        /\ ~ErrorPending
        /\ ngrok.procs[i].start = "polling"
        /\ AliveNgrok # {}
        /\ ngrok' = [ngrok EXCEPT !.procs[i].start = "live"]

\* ten polls of the start of process i without tunnels
PollGivesUp ==
    \E i \in 1..Len(ngrok.procs) :
        /\ ~ErrorPending
        /\ ngrok.procs[i].start = "polling"
        /\ AliveNgrok = {}
        /\ ngrok' = [ngrokProcess |-> 0,
                     procs |-> [Killed(ngrok.procs, ngrok.ngrokProcess)
                                    EXCEPT ![i].start = "gaveUp"]]

NgrokNext ==
    /\ \/ NgrokStart
       \/ NgrokStop
       \/ NgrokError
       \/ NgrokExit
       \/ PollSucceeds
       \/ PollGivesUp
    /\ UNCHANGED <<avars, svars, tvars, gvars, wvars, rvars, proc, capture>>

SpecNgrok == NgrokInit /\ [][NgrokNext]_vars

----------------------------------------------------------------------------
(* Vocabulary of the properties.                                           *)

\* the last operation was a send and nothing of it is in flight
Settled == lastOp = "send" /\ pc = "idle"

Failed == Settled /\ outcome = "rejected"

Last(msgs) == msgs[Len(msgs)]

\* messages with role user
UserCount(msgs) == Cardinality({i \in 1..Len(msgs) : msgs[i].role = "user"})

\* getHistoryStats()
getHistoryStats(msgs) == [turns |-> UserCount(msgs), messages |-> Len(msgs)]

\* messages holding a caller's text
IsCallerMsg(m) == m.role = "user" /\ m.tool_results = <<>>
CallerCount(msgs) == Cardinality({i \in 1..Len(msgs) : IsCallerMsg(msgs[i])})

\* the ids of the tool results a message holds
ResultIds(m) ==
    IF m.role = "tool" THEN {m.tool_call_id}
    ELSE {m.tool_results[k].tool_use_id : k \in 1..Len(m.tool_results)}

CallIdsOf(m) == {m.tool_calls[k].id : k \in 1..Len(m.tool_calls)}

\* messages[i] records tool calls and is followed by the results of all of them
Answered(msgs, i) ==
    LET n == Len(msgs[i].tool_calls)
    IN  \/ /\ i + n <= Len(msgs)
           /\ \A k \in 1..n : msgs[i + k].role = "tool"
        \/ /\ i + 1 <= Len(msgs)
           /\ Len(msgs[i + 1].tool_results) = n

----------------------------------------------------------------------------
(* C1..C9: the Conversation across turns and the tool-calling loop.        *)

\* C1: a send of Groq, Claude API or Ollama that fails after the user message
\* was appended leaves as many messages in the Conversation as there were
\* before send was called.
C1_RollbackCount ==
    (kind \in ToolKinds /\ Failed /\ error # "config")
        => Len(messages) = Len(before)

\* C2: one turn issues at most 5 model requests, and when all 5 responses
\* carried tool calls send resolves with the empty string.
C2_FiveRounds ==
    kind \in ToolKinds =>
        /\ requests <= 5
        /\ round <= 5
        /\ round = 5 => (pc = "idle" /\ outcome = "resolved" /\ returned = "")

C2_Witness ==
    /\ Settled
    /\ round = 5
    /\ requests = 5
    /\ outcome = "resolved"
    /\ returned = ""

\* C3: between turns, every tool-result message of the Conversation is
\* preceded by an assistant message holding a tool call with the same id.
C3_ResultsFollowCalls ==
    pc = "idle" =>
        \A i \in 1..Len(messages) :
            \A id \in ResultIds(messages[i]) :
                \E j \in 1..(i - 1) :
                    /\ messages[j].role = "assistant"
                    /\ id \in CallIdsOf(messages[j])

\* C4: the assistant message recording the calls c1..cn unchanged comes first,
\* then one tool result per call, carrying the call's id, in the order of the
\* calls; the next model request is issued only after all n results.
C4_ResultsInOrder ==
    LET n == Len(pending)
        done == IF pc = "tools" THEN tcIndex - 1 ELSE n
        at == Len(messages) - done
        ids == [k \in 1..n |-> pending[k].id]
    IN  /\ (kind \in {"groq", "ollama"}
            /\ (pc = "tools" \/ (pc = "request" /\ round > 0)))
           => /\ at >= 1
              /\ messages[at].role = "assistant"
              /\ messages[at].tool_calls = pending
              /\ \A k \in 1..done :
                   /\ messages[at + k].role = "tool"
                   /\ messages[at + k].tool_call_id = ids[k]
              /\ pc = "tools" => toolRuns >= tcIndex
        /\ (kind = "claude" /\ pc = "request" /\ round > 0)
           => /\ Len(messages) >= 2
              /\ messages[Len(messages) - 1].role = "assistant"
              /\ messages[Len(messages) - 1].tool_calls = pending
              /\ Len(Last(messages).tool_results) = n
              /\ \A k \in 1..n : Last(messages).tool_results[k].tool_use_id = ids[k]

C6_ConsistentAfterFailure ==
    Failed =>
        /\ messages # <<>> => Last(messages).role # "user"
        /\ \A i \in 1..Len(messages) :
              messages[i].tool_calls # <<>> => Answered(messages, i)

\* C7: with an empty API key, send of Groq, Claude API and Gemini API fails
\* before any model request is issued and leaves the Conversation as it was.
C7_NoCredentialNoRequest ==
    (kind \in KeyKinds /\ apiKey = "") =>
        /\ pc = "idle"
        /\ requests = 0
        /\ messages = before
        /\ lastOp = "send" => (outcome = "rejected" /\ error = "config")

C7_Witness ==
    /\ kind \in KeyKinds
    /\ apiKey = ""
    /\ lastOp = "send"
    /\ outcome = "rejected"
    /\ error = "config"

\* C8: once a model request of a turn has failed with a transport error or a
\* non-success HTTP status, the turn issues no further model request, runs
\* no further tool, and send does not resolve.
C8_NoRetry ==
    [][(\/ pc = "response" /\ status # 200
        \/ error' # error /\ error' \in {"transport", "aborted", "status"})
        => /\ requests' = requests
           /\ toolRuns' = toolRuns
           /\ outcome' # "resolved"
           /\ pc' \in {"idle", "hung"}]_vars

\* C9: when the transport is closed while a response is being received, the
\* pending send fails and the user message the turn appended is removed.
C9_AbortRollsBack ==
    (kind \in {"claude", "gemini", "ollamaStream"} /\ Settled /\ error = "aborted")
        => /\ outcome = "rejected"
           /\ CallerCount(messages) = CallerCount(before)

----------------------------------------------------------------------------
(* C10: streaming parsers and chunk boundaries.                            *)

\* C10: however the body is cut into chunks, each streaming parser ends with
\* the accumulated text, and the Claude parser with the tool-use blocks, that
\* it ends with when the whole body arrives as one chunk.
C10_ChunkingInvariant ==
    ended =>
        /\ closure.fullText = AsOneChunk(parser, wire).fullText
        /\ closure.toolUseBlocks = AsOneChunk(parser, wire).toolUseBlocks

----------------------------------------------------------------------------
(* C11..C14, C19: the tool executor and the tool-execution branch.         *)

\* the segments of the sandbox root
RootSegs == resolvedSegs(cwd, <<>>)

\* a path argument that leads out of the directory tree of the root
LeadsOutside(filePath) ==
    LET segs == resolvedSegs(cwd, filePath)
    IN  ~(Len(segs) >= Len(RootSegs) /\ SubSeq(segs, 1, Len(RootSegs)) = RootSegs)

\* the lower-cased first word of a command string ("" when it has none)
FirstWord(commandString) ==
    LET words == Words(Trim(commandString))
    IN  IF words = <<>> THEN <<>> ELSE toLowerCase(Head(words))

\* the tool calls that cannot be carried out: no or an unknown tool name,
\* missing or unparsable arguments, a read_file path outside the root, a
\* command that is not allowed
Uncarriable(tc) ==
    \/ ~tc.function
    \/ tc.name \notin {"list_files", "read_file", "run_command"}
    \/ /\ tc.name \in {"read_file", "run_command"}
       /\ tc.arguments.t # "object"
    \/ /\ tc.name = "read_file"
       /\ tc.arguments.t = "object"
       /\ tc.arguments.path.t = "string"
       /\ LeadsOutside(tc.arguments.path.s)
    \/ /\ tc.name = "run_command"
       /\ tc.arguments.t = "object"
       /\ tc.arguments.command.t = "string"
       /\ FirstWord(tc.arguments.command.s) \notin ALLOWED_COMMANDS

\* C11: for every tool call that cannot be carried out, tool execution
\* returns an [Error: ...] text and does not throw; the orchestrator appends
\* that text as the tool result and goes on with the loop.
C11_ToolErrorsAreText ==
    (toolResult.called /\ Uncarriable(toolCall))
        => /\ ~toolResult.threw
           /\ toolResult.form = "error"
           /\ outcome = "pending"
           /\ Last(messages).role = "tool"
           /\ Last(messages).content = toolResult

\* the path argument of the read_file call last executed
PathGiven == toolCall.arguments.path.s

ReadFileCalled ==
    /\ toolResult.called
    /\ toolCall.name = "read_file"
    /\ toolCall.arguments.t = "object"
    /\ toolCall.arguments.path.t = "string"

\* C12: read_file returns the access-denied text and reads no file for every
\* path that resolves to a location outside the sandbox root.
C12_OutsideRootDenied ==
    (ReadFileCalled /\ LeadsOutside(PathGiven))
        => /\ ~toolResult.threw
           /\ toolResult.form = "error"
           /\ toolResult.what = "outside"
           /\ toolResult.read = {}

\* a path argument that resolves to an existing file under the root whose
\* name is .env or .env.<suffix> in any letter case
NamesEnvFile(filePath) ==
    LET segs == resolvedSegs(cwd, filePath)
    IN  /\ ~LeadsOutside(filePath)
        /\ render(segs) \in Files
        /\ isEnvFile(Last(segs))

\* C13: read_file returns the access-denied text, and never the contents,
\* for every path that resolves to an env file under the root, however the
\* path is spelled.
C13_EnvFileDenied ==
    (ReadFileCalled /\ NamesEnvFile(PathGiven))
        => /\ ~toolResult.threw
           /\ toolResult.form = "error"
           /\ toolResult.what = "env"
           /\ toolResult.read = {}

\* the command argument of the run_command call last executed
CommandGiven == toolCall.arguments.command.s

\* C14: run_command invokes a registered handler only when the lower-cased
\* first word of the command string is in the allow-list, and then the
\* handler registered under that word; for every other command string no
\* handler runs and the result is an [Error: ...] text.
C14_AllowListGuardsHandlers ==
    (toolResult.called /\ toolCall.name = "run_command")
        => /\ toolResult.ran # {}
              => /\ FirstWord(CommandGiven) \in ALLOWED_COMMANDS
                 /\ toolResult.ran = {FirstWord(CommandGiven)}
                 /\ toolResult.ran \subseteq registry
           /\ FirstWord(CommandGiven) \notin ALLOWED_COMMANDS
              => /\ toolResult.ran = {}
                 /\ ~toolResult.threw
                 /\ toolResult.form = "error"

\* a registered command that is not allow-listed was asked for
C14_Witness ==
    /\ toolResult.called
    /\ FirstWord(CommandGiven) = <<"octopus">>
    /\ CommandGiven # <<"octopus">>
    /\ <<"octopus">> \in registry
    /\ <<"cd">> \in registry
    /\ toolResult.what = "notallowed"

----------------------------------------------------------------------------
(* C15: the converters of the tool catalog.                                *)

\* the tool name an entry of a converter's output shows
NameShown(entry) ==
    IF "function" \in DOMAIN entry THEN entry.function.name
    ELSE IF "name" \in DOMAIN entry THEN entry.name
    ELSE NoName

\* the parameter schema an entry of a converter's output shows
SchemaShown(entry) ==
    IF "function" \in DOMAIN entry THEN entry.function.parameters
    ELSE IF "input_schema" \in DOMAIN entry THEN entry.input_schema
    ELSE IF "parameters" \in DOMAIN entry THEN entry.parameters
    ELSE [type |-> "", properties |-> <<>>, required |-> <<>>]

SameButCase(typeOut, typeIn) == typeOut \in {typeIn, toUpperCase(typeIn)}

\* entries shows every tool of the catalog, in its order, with its name, its
\* parameter names, its required list, and its types but for their case
ShowsCatalog(entries) ==
    /\ Len(entries) = Len(catalog)
    /\ \A i \in 1..Len(catalog) :
         LET schema == SchemaShown(entries[i])
             params == catalog[i].parameters
         IN  /\ NameShown(entries[i]) = catalog[i].name
             /\ SameButCase(schema.type, "object")
             /\ DOMAIN schema.properties = DOMAIN params.properties
             /\ schema.required = params.required
             /\ \A key \in DOMAIN params.properties :
                  SameButCase(schema.properties[key].type, params.properties[key].type)

\* C15 as claimed: the output of each converter has exactly one entry per
\* catalog tool, in catalog order, with the same tool name, parameter names
\* and required list, the types differing in letter case only.
C15_OneEntryPerTool ==
    converted # NoOutput => ShowsCatalog(converted.output)

\* C15 as amended: that holds of the outputs of toOpenAITools and
\* toAnthropicTools, and of the functionDeclarations list of the single entry
\* toGeminiTools returns.
C15_OneDeclarationPerTool ==
    converted # NoOutput =>
        IF converted.format = "gemini"
        THEN /\ Len(converted.output) = 1
             /\ ShowsCatalog(converted.output[1].functionDeclarations)
        ELSE ShowsCatalog(converted.output)

C15_Witness ==
    /\ catalog = TOOL_CATALOG
    /\ converted.format = "gemini"
    /\ Len(converted.output[1].functionDeclarations) = 3

----------------------------------------------------------------------------
(* C16, C18, C20: the Conversation at the ceiling, after clearHistory, and *)
(* after an error line of a stream.                                        *)

\* assistant messages recording tool calls
CallsCount(msgs) ==
    Cardinality({i \in 1..Len(msgs) :
                   msgs[i].role = "assistant" /\ msgs[i].tool_calls # <<>>})

\* assistant messages holding a text answer
TextCount(msgs) ==
    Cardinality({i \in 1..Len(msgs) :
                   msgs[i].role \in {"assistant", "model"} /\ msgs[i].tool_calls = <<>>})

\* assistant messages recording tool calls that are followed by the results
AnsweredCount(msgs) ==
    Cardinality({i \in 1..Len(msgs) :
                   msgs[i].tool_calls # <<>> /\ Answered(msgs, i)})

\* the Conversation ends with an assistant message recording n tool calls
\* and the results of those n calls
EndsWithResults(msgs, n) ==
    IF kind = "claude"
    THEN /\ Len(msgs) >= 2
         /\ msgs[Len(msgs) - 1].role = "assistant"
         /\ Len(msgs[Len(msgs) - 1].tool_calls) = n
         /\ Last(msgs).role = "user"
         /\ Len(Last(msgs).tool_results) = n
    ELSE /\ Len(msgs) > n
         /\ msgs[Len(msgs) - n].role = "assistant"
         /\ Len(msgs[Len(msgs) - n].tool_calls) = n
         /\ \A k \in 1..n : msgs[Len(msgs) - n + k].role = "tool"

\* C16: when the fifth response of a turn still carries tool calls, send
\* returns '' with the results of that fifth round as the last messages of
\* the Conversation, the assistant and tool messages of all five rounds
\* present, and no assistant text message added.
C16_CeilingLeavesResults ==
    (kind \in ToolKinds /\ Settled /\ round = 5)
        => /\ outcome = "resolved"
           /\ returned = ""
           /\ \E n \in 1..MaxCalls : EndsWithResults(messages, n)
           /\ CallsCount(messages) = CallsCount(before) + 5
           /\ AnsweredCount(messages) = AnsweredCount(before) + 5
           /\ TextCount(messages) = TextCount(before)

C16_Witness ==
    /\ kind = "groq"
    /\ Settled
    /\ round = 5
    /\ before # <<>>
    /\ Last(messages).role = "tool"
    /\ Len(messages) > Len(before) + 10

----------------------------------------------------------------------------
(* C17: the WhatsApp connector keeps one agent per chat.                   *)

\* the instances kept in the connector's maps
Persistent(i) == instances[i].name \in {"ollama", "groq"}

\* C17: no Ollama or Groq agent instance is used by two different chat ids,
\* and the messages of one chat id for one of these agents all go to the
\* same instance.
C17_OneAgentPerChat ==
    /\ \A i \in 1..Len(instances) :
         Persistent(i) => Cardinality(instances[i].chats) <= 1
    /\ \A i, j \in 1..Len(instances) :
         (/\ Persistent(i)
          /\ i # j
          /\ instances[i].name = instances[j].name)
            => instances[i].chats \cap instances[j].chats = {}

\* two chats have used both agents, and a chat came back to its instance
C17_Witness ==
    /\ DOMAIN ollamaAgents = ChatIds
    /\ DOMAIN groqAgents = ChatIds
    /\ served.agentName = "ollama"
    /\ served.instance # 0
    /\ served.instance < Len(instances)
    /\ instances[served.instance].chats = {served.from}

\* C18: a new agent has an empty Conversation; after clearHistory the
\* Conversation is empty and getHistoryStats reports 0 turns and 0 messages,
\* whatever preceded; the request of a send issued after clearHistory holds
\* only what that send appended.
C18_ClearEmpties ==
    /\ [](lastOp = "none" => messages = <<>>)
    /\ [](lastOp = "clear"
            => /\ messages = <<>>
               /\ getHistoryStats(messages) = [turns |-> 0, messages |-> 0])
    /\ [][(lastOp = "clear" /\ lastOp' = "send")
            => /\ before' = <<>>
               /\ pc' = "request" => messages' = PushUser(<<>>)]_vars

\* cleared after a turn that went through tool rounds
C18_Witness ==
    /\ lastOp = "clear"
    /\ round >= 1
    /\ requests >= 2
    /\ before # <<>>

\* the loop hands executeTool a mapping for this entry: GroqAgent puts {}
\* in the place of anything that is not the text of an object, OllamaAgent
\* only in the place of a missing or null value
HasArgumentMapping(tc) ==
    kind = "ollama" => tc.arguments.t # "unparsable"

\* an entry of a tool-call list with a tool name and an argument mapping
WellFormed(tc) ==
    /\ tc.function
    /\ tc.name # NoName
    /\ HasArgumentMapping(tc)

\* C19: whenever the orchestrator is in the tool-execution branch, the list
\* of tool calls it iterates is not empty and every entry has a tool name and
\* an argument mapping; a response whose list is absent or empty is taken as
\* a text result.
C19_BranchListWellFormed ==
    /\ pc = "tools"
        => /\ pending # <<>>
           /\ \A i \in 1..Len(pending) : WellFormed(pending[i])
    /\ (Settled /\ outcome = "resolved") => toolRuns = 0

\* C20: in the streaming OllamaAgent, once a parsed line carried an `error`
\* field the call fails with that error, send does not resolve, and no
\* assistant message is appended, whatever arrives after that line.
C20_ErrorLineFailsCall ==
    (kind = "ollamaStream" /\ Settled /\ error = "vendor")
        => /\ outcome = "rejected"
           /\ TextCount(messages) = TextCount(before)

----------------------------------------------------------------------------
(* C21..C23, C25: what the streaming parsers make of the lines of a body.  *)

\* what a call ended with: text, tool calls, content blocks, what was
\* written to stdout, and whether the promise was resolved or rejected
Ended(c) == <<c.fullText, c.toolUseBlocks, c.contentBlocks, c.stdout, c.settled>>

\* the body holds a line that is not JSON
HasBadLine == \E i \in 1..Len(wire) : ~isJson[i]

\* C21: in every streaming parser a line that is not valid JSON is skipped:
\* the call ends with the text, the tool calls and the outcome it ends with
\* when the same chunks arrive without that line.
C21_BadLineSkipped ==
    ended => Ended(closure) = Ended(shadow)

\* a body with a line that is not JSON between lines that are was read
C21_Witness ==
    /\ ended
    /\ HasBadLine
    /\ isJson[1]
    /\ isJson[Len(wire)]
    /\ closure.fullText # <<>>
    /\ closure.settled = "resolved"

\* the lines of a body, decoded as a whole: the complete ones, and the
\* unterminated rest (empty when the body ends with a newline)
CompleteLines(str) == Pop(SplitLines(Decode(str)))
AllLines(str) == SplitLines(Decode(str))

\* what a line carries: the parsed JSON of an NDJSON line or of the data of
\* an SSE line
EventOf(p, line) ==
    LET trimmed == Trim(line)
    IN  IF p = "ndjson" THEN ParseJson(trimmed)
        ELSE IF trimmed # <<>> /\ trimmed[1] = "D" THEN ParseJson(Tail(trimmed))
        ELSE ParseJson(<<>>)

EventsOf(p, lines) == [i \in 1..Len(lines) |-> EventOf(p, lines[i])]

\* the text tokens of a sequence of events, in order
TokensOf(evs) ==
    LET texts == SelectSeq(evs, LAMBDA e : e.type = "text")
    IN  [i \in 1..Len(texts) |-> texts[i].text]

\* the JSON value of a tool input, {} when the text is empty or not JSON
InputValue(json) ==
    IF json = <<"o", "v">> THEN "path=a.txt"
    ELSE IF json = <<"o", "é">> THEN "path=é"
    ELSE "{}"

\* the tool calls a sequence of Claude events stands for: one for each
\* tool_use start followed by its fragments and a stop
RECURSIVE ToolCallsOf(_, _, _)
ToolCallsOf(evs, open, json) ==
    IF evs = <<>> THEN <<>>
    ELSE IF Head(evs).type = "tool_start" THEN ToolCallsOf(Tail(evs), TRUE, <<>>)
    ELSE IF Head(evs).type = "input_json"
    THEN ToolCallsOf(Tail(evs), open, json \o Head(evs).text)
    ELSE IF Head(evs).type = "block_stop"
    THEN (IF open
          THEN <<[id |-> "t1", name |-> "read_file", input |-> InputValue(json)]>>
          ELSE <<>>) \o ToolCallsOf(Tail(evs), FALSE, <<>>)
    ELSE ToolCallsOf(Tail(evs), open, json)

ClaudeEvents == EventsOf("claudesse", CompleteLines(wire))

\* C22: for any Claude SSE stream, each tool_use content_block_start
\* followed by input_json_delta fragments and a content_block_stop yields
\* exactly one tool call with the id and name of the start event and, as
\* arguments, the JSON value of the concatenated fragments ({} when that is
\* empty or not JSON).
C22_ToolUseAssembled ==
    (ended /\ parser = "claudesse")
        => closure.toolUseBlocks = ToolCallsOf(ClaudeEvents, FALSE, <<>>)

TextBlock == [id |-> "", name |-> "text", input |-> ""]

\* C23: at the end of a Claude SSE stream the content-block list is the
\* text block (only when there is text) followed by the tool-use blocks in
\* the order they stopped, the tool-use list holds those blocks, and the
\* text is all text deltas concatenated in stream order.
C23_EndOfClaudeStream ==
    (ended /\ parser = "claudesse")
        => /\ closure.contentBlocks =
                (IF closure.fullText # <<>> THEN <<TextBlock>> ELSE <<>>)
                \o closure.toolUseBlocks
           /\ closure.toolUseBlocks = ToolCallsOf(ClaudeEvents, FALSE, <<>>)
           /\ closure.fullText = Concat(TokensOf(ClaudeEvents))

\* C25: the final text of the NDJSON adapter is the concatenation, in
\* stream order, of the message.content of every complete well-formed line
\* and of a well-formed unterminated last line, and with silent off exactly
\* these tokens are written to the output sink in that order.
C25_NdjsonText ==
    (ended /\ parser = "ndjson" /\ closure.settled = "resolved")
        => /\ closure.fullText = Concat(TokensOf(EventsOf("ndjson", AllLines(wire))))
           /\ ~silent => closure.stdout = TokensOf(EventsOf("ndjson", AllLines(wire)))

----------------------------------------------------------------------------
(* C24, C26: what a non-streaming response resolves to.                    *)

\* the function-call parts of a Gemini body, and the texts of its text parts
FunctionCallsOf(parts) == SelectSeq(parts, LAMBDA part : part.type = "functionCall")
TextsOf(parts) ==
    LET texts == SelectSeq(parts, LAMBDA part : part.type = "text")
    IN  [i \in 1..Len(texts) |-> texts[i].text]

\* C24: the Gemini API adapter extracts the function-call parts of a
\* successful response; when there is at least one the result is those tool
\* calls and not the text parts, and only when there is none is the result
\* the concatenation of the text parts.
C24_FunctionCallsFirst ==
    (kind = "gemini" /\ callResult # NoResult)
        => IF FunctionCallsOf(responseBody.parts) # <<>>
           THEN /\ callResult.settled = "resolved"
                /\ callResult.toolCalls =
                       Field("value", FunctionCallsOf(responseBody.parts))
                /\ callResult.content = <<>>
           ELSE callResult.settled = "resolved"
                   => /\ callResult.toolCalls = Null
                      /\ callResult.content = Concat(TextsOf(responseBody.parts))

\* the message of the body carries a non-empty tool_calls array
HasToolCalls(json) ==
    /\ json.message.present
    /\ json.message.tool_calls.t = "value"
    /\ json.message.tool_calls.v # <<>>

\* the body is a JSON object that reports no error of the vendor
Answers(json) == json.parsed /\ ~(kind = "ollama" /\ json.error)

\* C26: in non-streaming mode (Groq and Ollama) a response whose message
\* has a non-empty tool_calls array resolves to those tool calls with empty
\* text even when the message also has content; otherwise it resolves to
\* the content (the empty string when absent) with no tool calls; a result
\* never has both tool calls and non-empty text.
C26_ToolCallsOrContent ==
    (kind \in {"groq", "ollama"} /\ callResult # NoResult /\ Answers(responseBody))
        => /\ callResult.settled = "resolved"
           /\ HasToolCalls(responseBody)
                => /\ callResult.toolCalls = responseBody.message.tool_calls
                   /\ callResult.content = ""
           /\ ~HasToolCalls(responseBody)
                => /\ callResult.toolCalls = Null
                   /\ callResult.content =
                        (IF /\ responseBody.message.present
                            /\ responseBody.message.content.t = "value"
                         THEN responseBody.message.content.v
                         ELSE "")
           /\ ~(callResult.toolCalls # Null /\ callResult.content # "")

\* a message with tool calls and content was resolved
C26_Witness ==
    /\ kind \in {"groq", "ollama"}
    /\ callResult # NoResult
    /\ HasToolCalls(responseBody)
    /\ responseBody.message.content = Field("value", AnswerText)
    /\ callResult.settled = "resolved"
    /\ callResult.content = ""

----------------------------------------------------------------------------
(* C27: the subprocess agents.                                             *)

WhiteSpace == {"SP", "NL"}

\* t is s without the white space at its two ends
IsTrimOf(t, s) ==
    /\ t # <<>> => (t[1] \notin WhiteSpace /\ t[Len(t)] \notin WhiteSpace)
    /\ \E i \in 0..Len(s) : \E j \in i..Len(s) :
          /\ t = SubSeq(s, i + 1, j)
          /\ \A k \in (1..i) \cup ((j + 1)..Len(s)) : s[k] \in WhiteSpace

\* send of a subprocess agent is over
SendOver == proc.state # "none" /\ proc.send.outcome # "pending"

\* C27: a subprocess agent resolves send with the trimmed captured stdout
\* exactly when the process exits with code 0; on every other exit (a
\* non-zero code, a signal) send fails with an error carrying the exit code
\* and the captured stderr; a process that cannot be started fails send.
C27_ExitCodeDecides ==
    SendOver
        => LET out == Concat(proc.stdout)
               err == Concat(proc.stderr)
           IN  IF ~proc.started THEN proc.send.outcome = "failed"
               ELSE /\ proc.state = "closed"
                    /\ proc.send.outcome = "returned" <=> proc.exit = ExitCode(0)
                    /\ proc.send.outcome = "returned" => IsTrimOf(proc.send.value, out)
                    /\ proc.send.outcome = "failed"
                         => /\ proc.send.code = proc.exit
                            /\ err # <<>> => proc.send.detail = err

\* a process that wrote to both streams was ended by a signal, and send
\* failed with the stderr text
C27_Witness ==
    /\ SendOver
    /\ proc.started
    /\ proc.exit = Signalled
    /\ proc.stdout # <<>>
    /\ proc.stderr # <<>>
    /\ proc.send.outcome = "failed"
    /\ proc.send.detail = Concat(proc.stderr)

----------------------------------------------------------------------------
(* C28: list_files.                                                        *)

ListFilesCalled == toolResult.called /\ toolCall.name = "list_files"

\* the last segment of a path
Basename(path) == split(path, "/")[Len(split(path, "/"))]

\* a name is the name of an env file: .env or .env.<more>, in any case
EnvName(name) ==
    \/ Len(name) = 2 /\ name[1] = "." /\ name[2] \in {"env", "ENV"}
    \/ Len(name) >= 3 /\ name[1] = "." /\ name[2] \in {"env", "ENV"} /\ name[3] = "."

\* the extension of a name is on the binary list, in any case
BinaryName(name) ==
    /\ Len(name) >= 2
    /\ name[Len(name) - 1] = "."
    /\ toLowerCase(<<name[Len(name)]>>)[1] \in BinaryNames

\* a directory of the path is called node_modules
InNodeModules(path) ==
    \E i \in 1..(Len(split(path, "/")) - 1) : split(path, "/")[i] = <<"node_modules">>

----------------------------------------------------------------------------
(* C29: the size limit of read_file.                                       *)

\* read_file returned the text of a file
FileReturned == ReadFileCalled /\ ~toolResult.threw /\ toolResult.form = "text"

\* the file whose text was returned
FileRead == CHOOSE file \in toolResult.read : TRUE

\* C29: read_file returns the complete contents without marker for a file
\* of at most 8192 bytes, and the first 8192 units followed by the marker
\* for a larger one; the marker is present exactly when content was cut
\* off; the result is never longer than 8192 plus the marker.
C29_TruncationMarker ==
    FileReturned
        => /\ toolResult.read = {FileRead}
           /\ SizeOf(FileRead) <= 8192
                => /\ toolResult.what = "contents"
                   /\ toolResult.length = LengthOf(FileRead)
           /\ SizeOf(FileRead) > 8192
                => /\ toolResult.what = "truncated"
                   /\ toolResult.length = Kept(LengthOf(FileRead), 8192)
           /\ toolResult.what = "truncated" <=> toolResult.length < LengthOf(FileRead)
           /\ toolResult.length <= 8192

----------------------------------------------------------------------------
(* C30: options.silent.                                                    *)

\* how often an event occurs among the events of a turn
RECURSIVE CountOf(_, _)
CountOf(evts, what) ==
    IF evts = <<>> THEN 0
    ELSE (IF Head(evts) = what THEN 1 ELSE 0) + CountOf(Tail(evts), what)

\* the writes to the output sink among the events
Writes(evts) == SelectSeq(evts, LAMBDA ev : ev # "exec")

\* C30: with options.silent true a whole turn of GroqAgent.send or
\* OllamaAgent.send writes nothing to the output sink; with silent false the
\* text of the final answer is written exactly once and each tool call is
\* notified before its tool is executed.
C30_SilentWritesNothing ==
    kind \in {"groq", "ollama"}
        => /\ silent => Writes(events) = <<>>
           /\ ~silent
                => /\ \A i \in 1..Len(events) :
                         events[i] = "exec" => (i > 1 /\ events[i - 1] = "log")
                   /\ CountOf(events, "log") = toolRuns
                   /\ (pc = "idle" /\ outcome = "resolved" /\ returned # "")
                        => /\ CountOf(events, "text") = 1
                           /\ events[Len(events)] = "text"
                   /\ ~(pc = "idle" /\ outcome = "resolved" /\ returned # "")
                        => CountOf(events, "text") = 0

\* a silent turn that ran a tool and ended with an answer
C30_Witness ==
    /\ kind \in {"groq", "ollama"}
    /\ silent
    /\ pc = "idle"
    /\ outcome = "resolved"
    /\ returned # ""
    /\ toolRuns >= 1
    /\ CountOf(events, "exec") = toolRuns

----------------------------------------------------------------------------
(* C31: the roles of the Gemini Conversation.                              *)

\* user, model, user, model, ...: starts with user and has even length
Alternates(msgs) ==
    /\ Len(msgs) % 2 = 0
    /\ \A i \in 1..Len(msgs) :
          msgs[i].role = (IF i % 2 = 1 THEN "user" ELSE "model")

\* C31: after every settled send on a GeminiApiAgent (success, non-200
\* status, empty content, request error, response-stream error) and after
\* clearHistory the Conversation alternates user, model, user, model, ...
\* starting with user and has even length.
C31_GeminiAlternates ==
    (kind = "gemini" /\ pc = "idle" /\ lastOp \in {"send", "clear"})
        => Alternates(messages)

----------------------------------------------------------------------------
(* C32: what a failed send removes.                                        *)

\* msgs with more messages appended, or msgs itself
Extends(longer, msgs) ==
    Len(longer) >= Len(msgs) /\ SubSeq(longer, 1, Len(msgs)) = msgs

\* the step takes the last message away, and it is the user message that
\* the send in progress appended
PopsOwnUserMessage ==
    /\ messages' = Pop(messages)
    /\ Len(messages) = Len(PushUser(before))
    /\ Last(messages) = UserMsg(UserText)
    /\ outcome' = "rejected"

\* C32: a failed send removes at most one message, and that message is the
\* user message the same send appended; the messages of earlier turns and
\* the assistant and tool messages of earlier rounds of the turn are never
\* removed or changed.
C32_OnlyOwnUserMessageRemoved ==
    [][pc # "idle" => (Extends(messages', messages) \/ PopsOwnUserMessage)]_vars

----------------------------------------------------------------------------
(* C33: getHistoryStats.                                                   *)

\* C33: for every agent and after any sequence of operations
\* getHistoryStats().turns is the number of caller-supplied messages in the
\* Conversation and getHistoryStats().messages is its length.
C33_TurnsCountCallerMessages ==
    pc = "idle"
        => /\ getHistoryStats(messages).turns = CallerCount(messages)
           /\ getHistoryStats(messages).messages = Len(messages)

----------------------------------------------------------------------------
(* C34: the turns of one chat.                                             *)

\* the instances kept for a chat in ollamaAgents and groqAgents
KeptForChats ==
    {ollamaAgents[key] : key \in DOMAIN ollamaAgents}
        \cup {groqAgents[key] : key \in DOMAIN groqAgents}

\* C34: for one chat id the WhatsApp connector never has two turns in
\* progress at the same time on the persistent agent of the chat: a second
\* message of the chat starts its send only after the send before it has
\* settled.
C34_OneTurnPerChat ==
    \A agent \in KeptForChats : instances[agent].inFlight <= 1

----------------------------------------------------------------------------
(* C35: clearHistory in the middle of a turn.                              *)

\* C35: when clearHistory is called while a turn is awaiting a model
\* response or a tool result, then once the turn has settled the
\* Conversation is empty or begins with a user or system message.
C35_NoLeftoverAfterClear ==
    (pc = "idle" /\ lastOp = "clear")
        => (messages = <<>> \/ messages[1].role \in {"user", "system"})

----------------------------------------------------------------------------
(* C36: runCommand invocations that overlap.                               *)

AllReturned ==
    /\ capture.runs # <<>>
    /\ \A i \in 1..Len(capture.runs) : capture.runs[i].state = "returned"

\* C36: for any interleaving of runCommand invocations, once all of them
\* have returned process.stdout.write, process.stderr.write, console.log,
\* console.error and console.warn are the original functions again, and the
\* text each invocation returned holds only output of its own handler.
C36_CaptureRestored ==
    AllReturned
        => /\ capture.current = Sink(0)
           /\ \A i \in 1..Len(capture.runs) : capture.runs[i].text \subseteq {i}

----------------------------------------------------------------------------
(* C37: the ngrok handle and the ngrok processes.                          *)

\* C37: for any sequence of `ngrok <port>`, `ngrok stop` and start-failure
\* or exit events, at most one ngrok process is alive at a time, and a
\* process that is alive is the one ngrokProcess refers to, so that
\* `ngrok stop` and isNgrokRunning refer to it: the exit of an earlier
\* process never clears the handle of a later one.
C37_OneTrackedNgrok ==
    /\ Cardinality(AliveNgrok) <= 1
    /\ \A i \in AliveNgrok : isNgrokRunning /\ ngrok.ngrokProcess = i

----------------------------------------------------------------------------
(* C38: the system message of OllamaAgent.                                 *)

SystemAt(msgs) == {i \in 1..Len(msgs) : msgs[i].role = "system"}

\* C38: on an OllamaAgent, whatever sends (successful or failed) and
\* clearHistory calls have happened, the Conversation holds at most one
\* system message and it is the first message; a step that removes the
\* system message leaves no message behind it.
C38_SystemMessageFirst ==
    [][kind = "ollama"
         => /\ SystemAt(messages) \subseteq {1}
            /\ SystemAt(messages') \subseteq {1}
            /\ (SystemAt(messages) # {} /\ SystemAt(messages') = {})
                   => messages' = <<>>]_vars

\* a send failed on a request error in a Conversation that holds an earlier
\* turn: the system message is still the first message
C38_Witness ==
    /\ kind = "ollama"
    /\ pc = "idle"
    /\ lastOp = "send"
    /\ outcome = "rejected"
    /\ error = "transport"
    /\ Len(messages) >= 3
    /\ SystemAt(messages) = {1}

====
